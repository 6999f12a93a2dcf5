---------------------------- MODULE WriteLogProofs ----------------------------
(***************************************************************************)
(* What the write path tells its users and in which order the backend      *)
(* decides, for every value of the constants: proofs that build on the     *)
(* inductive invariant of WritePathProofs.                                 *)
(*                                                                         *)
(* A second invariant, LogInv, speaks of the numbers of the writes instead *)
(* of the batch ids.  It is inductive relative to Inv.  Its heart is       *)
(* InOrder: wherever a request is, on the open stream or on one the client *)
(* has given up, every older write of the same user that is still queued   *)
(* has been decided or is ahead of it on that stream.  It is why a stream  *)
(* that is served late cannot decide writes out of order, and with it the  *)
(* write path is shown to implement WriteLog step by step.                 *)
(*                                                                         *)
(* The many actions of WritePath do only six things to the queues, the     *)
(* backend and the outcomes, named Issues, Settles, DiesTelling, Decides,  *)
(* Registers and Quiet below.  StepKinds maps every action to one of them; *)
(* each property is then proved for the six.                               *)
(***************************************************************************)
EXTENDS WritePathProofs

-----------------------------------------------------------------------------
(* The invariant. *)

\* The batches of a queue are their user's, and numbered with writes issued.
QueuesOwned ==
    \A u \in Users : \A i \in 1..Len(mutationQueue[u]) :
        /\ mutationQueue[u][i].user = u
        /\ mutationQueue[u][i].write \in 1..issued

\* The numbers of the writes grow along each queue.
WritesGrow ==
    \A u \in Users : \A i, j \in 1..Len(mutationQueue[u]) :
        i < j => mutationQueue[u][i].write < mutationQueue[u][j].write

\* No write is in two queues.
WritesUnique ==
    \A u, v \in Users : \A b \in ToSet(mutationQueue[u]), c \in ToSet(mutationQueue[v]) :
        b.write = c.write => u = v

\* A user is told of a write that was issued, and one who still waits for the outcome
\* of a write has not been told any.
CallbacksUntold ==
    /\ toldOk \cup toldError \subseteq 1..issued
    /\ \A u \in Users : \A c \in mutationCallbacks[u] : c.write \notin toldOk \cup toldError

\* What a waitForPendingWrites waits for is at or before the batch it waits under.
WaitersCover ==
    \A c \in pendingWritesCallbacks :
        /\ c.writes \subseteq 1..issued
        /\ \A b \in ToSet(mutationQueue[currentUser]) : b.write \in c.writes => b.id <= c.id

\* A request on a stream is of a write that is queued or decided, and the older writes
\* in its user's queue are decided or ahead of it on that stream.
InOrder(s) ==
    \A i \in 1..Len(s) :
        /\ s[i].write \in 1..issued
        /\ s[i].write \in Decided \/ s[i] \in ToSet(mutationQueue[s[i].user])
        /\ \A c \in ToSet(mutationQueue[s[i].user]) :
              c.write < s[i].write =>
                  c.write \in Decided \/ \E j \in 1..(i - 1) : s[j].write = c.write

AbandonedInOrder == \A s \in abandoned : InOrder(s)

\* The invariant about writes, outcomes and waiters, inductive together with Inv.
LogInv ==
    /\ QueuesOwned
    /\ WritesGrow
    /\ WritesUnique
    /\ CallbacksUntold
    /\ OutcomeIsFinal
    /\ WaitersAreQueued
    /\ WaitersCover
    /\ AbandonedInOrder

-----------------------------------------------------------------------------
(* What a step does to the queues, the backend and the outcomes. *)

\* The callbacks NotifyUser finds for the head of the pipeline.
Found == {c \in mutationCallbacks[currentUser] : c.id = Head(writePipeline).id}

\* The user writes: the queue grows by the next write.
Issues ==
    \E b \in Batch :
        /\ b.user = currentUser /\ b.write = issued + 1
        /\ issued' = issued + 1
        /\ \A i \in 1..Len(mutationQueue[currentUser]) :
              mutationQueue[currentUser][i].id < b.id
        /\ mutationQueue' = [mutationQueue EXCEPT ![currentUser] = Append(@, b)]
        /\ \A u \in Users : mutationCallbacks'[u] \subseteq mutationCallbacks[u] \cup {b}
        /\ UNCHANGED <<currentUser, pendingWritesCallbacks, abandoned, committed, rejected,
                       toldOk, toldError, faults>>

\* The decided head of the pipeline leaves the queue and its writer is told.
Settles ==
    /\ writePipeline # <<>>
    /\ \/ /\ Head(writePipeline).write \in committed
          /\ toldOk' = toldOk \cup Writes(Found) /\ toldError' = toldError
       \/ /\ Head(writePipeline).write \in Decided
          /\ ~ LossyFinish => Head(writePipeline).write \in rejected
          /\ toldOk' = toldOk /\ toldError' = toldError \cup Writes(Found)
    /\ mutationQueue' = [mutationQueue EXCEPT ![currentUser] = Tail(@)]
    /\ mutationCallbacks' = [mutationCallbacks EXCEPT ![currentUser] = @ \ Found]
    /\ pendingWritesCallbacks' =
          {c \in pendingWritesCallbacks : c.id # Head(writePipeline).id}
    /\ UNCHANGED <<currentUser, committed, rejected, issued>>
    /\ AbandonRequests

\* The process dies when the writer of the committed head has been told.
DiesTelling ==
    /\ writePipeline # <<>>
    /\ Head(writePipeline).write \in committed
    /\ toldOk' = toldOk \cup Writes(Found)
    /\ mutationCallbacks' = [u \in Users |-> {}]
    /\ pendingWritesCallbacks' = {}
    /\ faults' = faults + 1
    /\ UNCHANGED <<mutationQueue, toldError, committed, rejected, issued>>
    /\ AbandonRequests

\* The backend decides the first request of the open stream or of one given up, which
\* then goes on with its other requests or not at all.
Decides(s) ==
    /\ s # <<>>
    /\ s \in abandoned \cup {requests}
    /\ \/ committed' = committed \cup {Head(s).write} /\ rejected' = rejected
       \/ rejected' = rejected \cup {Head(s).write} /\ committed' = committed
    /\ abandoned' \subseteq abandoned \cup {Tail(s)}
    /\ s \notin abandoned => abandoned' = abandoned
    /\ UNCHANGED <<mutationQueue, currentUser, mutationCallbacks, pendingWritesCallbacks,
                   toldOk, toldError, issued, faults>>

\* waitForPendingWrites is called.
Registers ==
    /\ mutationQueue[currentUser] # <<>>
    /\ LET q == mutationQueue[currentUser]
       IN  pendingWritesCallbacks' = pendingWritesCallbacks \cup
               {[id |-> q[Len(q)].id, writes |-> Writes(ToSet(q))]}
    /\ UNCHANGED <<mutationQueue, currentUser, mutationCallbacks, abandoned, committed,
                   rejected, toldOk, toldError, issued, faults>>

\* Everything else: at most requests are left behind, and a user change or a crash
\* forgets who waits.
Quiet ==
    /\ UNCHANGED <<mutationQueue, committed, rejected, toldOk, toldError, issued>>
    /\ \/ UNCHANGED mutationCallbacks
       \/ mutationCallbacks' = [u \in Users |-> {}]
    /\ \/ UNCHANGED <<currentUser, pendingWritesCallbacks>>
       \/ pendingWritesCallbacks' = {} /\ faults' = faults + 1
    /\ AbandonRequests

-----------------------------------------------------------------------------
(* Every action is a step of one of these kinds. *)

\* WriteMutations issues a write.
LEMMA WriteMutationsIssues ==
    ASSUME Inv, WriteMutations
    PROVE  Issues
<1> DEFINE b == [user |-> currentUser, id |-> nextBatchId, write |-> issued + 1]
<1>1. b \in Batch /\ currentUser \in Users /\ mutationCallbacks \in [Users -> SUBSET Batch]
  BY DEF Inv, TypeOK, Batch
<1>2. b.user = currentUser /\ b.write = issued + 1 /\ b.id = nextBatchId
  OBVIOUS
<1>3. /\ mutationQueue' = [mutationQueue EXCEPT ![currentUser] = Append(@, b)]
      /\ issued' = issued + 1
      /\ mutationCallbacks' = mutationCallbacks
           \/ mutationCallbacks' = [mutationCallbacks EXCEPT ![currentUser] = @ \cup {b}]
      /\ UNCHANGED <<currentUser, pendingWritesCallbacks, abandoned, committed, rejected,
                     toldOk, toldError, faults>>
  BY DEF WriteMutations, WriteLocally, AddMutationBatch, backend, outcome
<1> HIDE DEF b
<1>4. \A u \in Users : mutationCallbacks'[u] \subseteq mutationCallbacks[u] \cup {b}
  BY <1>1, <1>3
<1>5. \A i \in 1..Len(mutationQueue[currentUser]) : mutationQueue[currentUser][i].id < b.id
  BY <1>2 DEF Inv, StoreInv, BatchIdsGrow
<1> QED
  BY <1>1, <1>2, <1>3, <1>4, <1>5, Zenon DEF Issues

\* OnWriteStreamMutationResult settles a committed write.
LEMMA MutationResultSettles ==
    ASSUME Inv, OnWriteStreamMutationResult
    PROVE  Settles
<1>1. /\ handshake = "complete" /\ responses # <<>>
      /\ mutationCallbacks' = [mutationCallbacks EXCEPT ![currentUser] = @ \ Found]
      /\ toldOk' = toldOk \cup Writes(Found) /\ toldError' = toldError
      /\ pendingWritesCallbacks' =
            {c \in pendingWritesCallbacks : c.id # Head(writePipeline).id}
      /\ mutationQueue' = [mutationQueue EXCEPT
              ![currentUser] = RemoveMutationBatch(@, Head(writePipeline).id)]
      /\ UNCHANGED <<currentUser, abandoned, committed, rejected, issued>>
  BY DEF OnWriteStreamMutationResult, HandleSuccessfulWrite, AcknowledgeBatch, NotifyUser,
         TriggerPendingWriteCallbacks, backend, Found
<1>2. writePipeline # <<>> /\ Head(writePipeline).write \in committed
  BY <1>1, AnswerIsHead
<1>3. RemoveMutationBatch(mutationQueue[currentUser], Head(writePipeline).id)
        = Tail(mutationQueue[currentUser])
  BY <1>2, RemoveHeadBatch
<1>4. mutationQueue' = [mutationQueue EXCEPT ![currentUser] = Tail(@)]
  BY <1>1, <1>3
<1>5. AbandonRequests
  BY <1>1 DEF AbandonRequests
<1> QED
  BY <1>1, <1>2, <1>4, <1>5, Zenon DEF Settles

\* HandleWriteError settles a refused write.
LEMMA WriteErrorSettles ==
    ASSUME Inv, HandleWriteError, handshake = "complete", serverStatus # "none",
           responses = <<>> \/ LossyFinish
    PROVE  Settles
<1>1. /\ mutationCallbacks' = [mutationCallbacks EXCEPT ![currentUser] = @ \ Found]
      /\ toldOk' = toldOk /\ toldError' = toldError \cup Writes(Found)
      /\ pendingWritesCallbacks' =
            {c \in pendingWritesCallbacks : c.id # Head(writePipeline).id}
      /\ mutationQueue' = [mutationQueue EXCEPT
              ![currentUser] = RemoveMutationBatch(@, Head(writePipeline).id)]
      /\ UNCHANGED <<currentUser, committed, rejected, issued>>
      /\ AbandonRequests
  BY DEF HandleWriteError, HandleRejectedWrite, RejectBatch, NotifyUser, ResetStream,
         TriggerPendingWriteCallbacks, backend, Found
<1>2. /\ writePipeline # <<>> /\ Head(writePipeline).write \in Decided
      /\ ~ LossyFinish => Head(writePipeline).write \in rejected
  BY AnswerIsHead DEF Decided
<1>3. RemoveMutationBatch(mutationQueue[currentUser], Head(writePipeline).id)
        = Tail(mutationQueue[currentUser])
  BY <1>2, RemoveHeadBatch
<1>4. mutationQueue' = [mutationQueue EXCEPT ![currentUser] = Tail(@)]
  BY <1>1, <1>3
<1> QED
  BY <1>1, <1>2, <1>4, Zenon DEF Settles

\* OnWriteStreamClose without a write error leaves queues and outcomes alone.
LEMMA CloseAndRetryQuiet ==
    ASSUME CloseAndRetry
    PROVE  Quiet
BY DEF CloseAndRetry, ResetStream, Quiet, store, engine, backend, outcome

\* OnStreamFinish settles a write or leaves queues and outcomes alone.
LEMMA OnStreamFinishKind ==
    ASSUME Inv, OnStreamFinish
    PROVE  Settles \/ Quiet
<1>1. /\ serverStatus # "none"
      /\ responses = <<>> \/ LossyFinish
      /\ OnWriteStreamClose(serverStatus)
  BY DEF OnStreamFinish
<1>2. CASE HandleWriteError /\ handshake = "complete"
  BY <1>1, <1>2, WriteErrorSettles
<1>3. CASE CloseAndRetry
  BY <1>3, CloseAndRetryQuiet
<1> QED
  BY <1>1, <1>2, <1>3 DEF OnWriteStreamClose

\* The stream's own steps and the network switch leave queues and outcomes alone.
LEMMA StreamStepsQuiet ==
    ASSUME \/ ResumeStartWithCredentials
           \/ BackoffElapsed
           \/ OnWriteStreamHandshakeComplete
           \/ IdleTimeout
           \/ AuthFailure
           \/ DisableNetwork
           \/ EnableNetwork
           \/ ConnectivityChange
           \/ AnswerHandshake
           \/ RefuseHandshake
           \/ UNCHANGED vars
    PROVE  Quiet
<1> USE DEF Quiet, store, engine, backend, outcome, wire
<1>1. CASE ResumeStartWithCredentials \/ BackoffElapsed \/ OnWriteStreamHandshakeComplete
  BY <1>1 DEF ResumeStartWithCredentials, BackoffElapsed, OnWriteStreamHandshakeComplete,
              AbandonRequests
<1>2. CASE IdleTimeout
  BY <1>2 DEF IdleTimeout, ResetStream
<1>3. CASE AuthFailure
  BY <1>3, CloseAndRetryQuiet DEF AuthFailure
<1>4. CASE DisableNetwork \/ ConnectivityChange
  BY <1>4 DEF DisableNetwork, ConnectivityChange, RestartNetwork, ResetStream
<1>5. CASE EnableNetwork
  BY <1>5 DEF EnableNetwork, AbandonRequests
<1>6. CASE AnswerHandshake \/ RefuseHandshake
  BY <1>6 DEF AnswerHandshake, RefuseHandshake, AbandonRequests
<1>7. CASE UNCHANGED vars
  BY <1>7 DEF vars, AbandonRequests
<1> QED
  BY <1>1, <1>2, <1>3, <1>4, <1>5, <1>6, <1>7

\* ConnectionLost never blames a write.
LEMMA ConnectionLostQuiet ==
    ASSUME NEW status \in Statuses, ConnectionLost(status)
    PROVE  Quiet
<1>1. CloseAndRetry
  BY DEF ConnectionLost, OnWriteStreamClose, IsPermanentWriteError, IsPermanentError,
         Statuses
<1> QED
  BY <1>1, CloseAndRetryQuiet

\* HandleCredentialChange leaves queues and outcomes alone and, for another user,
\* drops the waiters.
LEMMA CredentialChangeQuiet ==
    ASSUME NEW user \in Users, HandleCredentialChange(user)
    PROVE  Quiet
<1>1. /\ UNCHANGED <<mutationQueue, mutationCallbacks, committed, rejected, toldOk,
                     toldError, issued>>
      /\ faults' = faults + 1
  BY DEF HandleCredentialChange, Fault, backend, outcome
<1>2. \/ UNCHANGED <<currentUser, pendingWritesCallbacks>>
      \/ pendingWritesCallbacks' = {}
  BY DEF HandleCredentialChange
<1>3. AbandonRequests
  <2>1. CASE isNetworkEnabled
    BY <2>1 DEF HandleCredentialChange, RestartNetwork, ResetStream
  <2>2. CASE ~ isNetworkEnabled
    BY <2>2 DEF HandleCredentialChange, AbandonRequests, wire
  <2> QED
    BY <2>1, <2>2
<1> QED
  BY <1>1, <1>2, <1>3 DEF Quiet

\* Crash forgets callbacks and waiters and nothing else.
LEMMA CrashQuiet ==
    ASSUME NEW user \in Users, Crash(user)
    PROVE  Quiet
BY DEF Crash, Restart, RestartNetwork, ResetStream, Fault, Quiet, backend, outcome

\* CrashAfterNotify tells the writer of a committed write before the process dies.
LEMMA CrashAfterNotifyDies ==
    ASSUME Inv, NEW user \in Users, CrashAfterNotify(user)
    PROVE  DiesTelling
<1>1. /\ handshake = "complete" /\ responses # <<>>
      /\ toldOk' = toldOk \cup Writes(Found) /\ toldError' = toldError
      /\ Restart(user)
  BY DEF CrashAfterNotify, Found
<1>2. writePipeline # <<>> /\ Head(writePipeline).write \in committed
  BY <1>1, AnswerIsHead
<1>3. /\ mutationCallbacks' = [u \in Users |-> {}]
      /\ pendingWritesCallbacks' = {} /\ faults' = faults + 1
      /\ UNCHANGED <<mutationQueue, committed, rejected, issued>>
      /\ AbandonRequests
  BY <1>1 DEF Restart, RestartNetwork, ResetStream, Fault, backend
<1> QED
  BY <1>1, <1>2, <1>3 DEF DiesTelling

\* RegisterPendingWritesCallback adds a waiter.
LEMMA RegisterRegisters ==
    ASSUME RegisterPendingWritesCallback
    PROVE  Registers
BY DEF RegisterPendingWritesCallback, Registers, store, wire, backend, outcome

\* Commit and Reject decide the first request of the open stream.
LEMMA StreamDecides ==
    ASSUME Commit \/ Reject
    PROVE  Decides(requests)
<1>1. /\ requests # <<>>
      /\ \/ committed' = committed \cup {Head(requests).write} /\ rejected' = rejected
         \/ rejected' = rejected \cup {Head(requests).write} /\ committed' = committed
      /\ UNCHANGED <<mutationQueue, currentUser, mutationCallbacks, pendingWritesCallbacks,
                     toldOk, toldError, issued, faults, abandoned>>
  BY DEF Commit, Reject, store, engine, outcome
<1> QED
  BY <1>1 DEF Decides

\* ServeAbandoned decides the first request of a stream given up.
LEMMA AbandonedDecides ==
    ASSUME TypeOK, NEW left \in abandoned, ServeAbandoned(left)
    PROVE  Decides(left)
<1>1. /\ left # <<>>
      /\ \/ committed' = committed \cup {Head(left).write} /\ rejected' = rejected
         \/ rejected' = rejected \cup {Head(left).write} /\ committed' = committed
      /\ abandoned' \subseteq abandoned \cup {Tail(left)}
      /\ UNCHANGED <<mutationQueue, currentUser, mutationCallbacks, pendingWritesCallbacks,
                     toldOk, toldError, issued, faults>>
  BY DEF TypeOK, ServeAbandoned, store, engine, outcome
<1> QED
  BY <1>1 DEF Decides

\* Every step is of one of the six kinds.
LEMMA StepKinds ==
    ASSUME Inv, [Next]_vars
    PROVE  \/ Issues
           \/ Settles
           \/ DiesTelling
           \/ \E s \in abandoned \cup {requests} : Decides(s)
           \/ Registers
           \/ Quiet
<1>1. CASE Client
  BY <1>1, StreamStepsQuiet, MutationResultSettles, OnStreamFinishKind DEF Client
<1>2. CASE User
  BY <1>2, WriteMutationsIssues, RegisterRegisters DEF User
<1>3. CASE Environment
  BY <1>3, StreamStepsQuiet, ConnectionLostQuiet, CredentialChangeQuiet, CrashQuiet,
     CrashAfterNotifyDies DEF Environment
<1>4. CASE Backend
  <2>1. CASE Commit \/ Reject
    BY <2>1, StreamDecides
  <2>2. CASE \E left \in abandoned : ServeAbandoned(left)
    BY <2>2, AbandonedDecides DEF Inv
  <2>3. CASE AnswerHandshake \/ RefuseHandshake
    BY <2>3, StreamStepsQuiet
  <2> QED
    BY <1>4, <2>1, <2>2, <2>3 DEF Backend
<1>5. CASE UNCHANGED vars
  BY <1>5, StreamStepsQuiet
<1> QED
  BY <1>1, <1>2, <1>3, <1>4, <1>5 DEF Next

-----------------------------------------------------------------------------
(* Facts about the queues. *)

\* What the type invariant says of the elements of a queue.
LEMMA QueueElements ==
    ASSUME TypeOK, NEW u \in Users
    PROVE  /\ mutationQueue[u] \in Seq(Batch)
           /\ DOMAIN mutationQueue[u] = 1..Len(mutationQueue[u])
           /\ Len(mutationQueue[u]) \in Nat
           /\ \A i \in 1..Len(mutationQueue[u]) :
                 /\ mutationQueue[u][i] \in Batch
                 /\ mutationQueue[u][i].id \in Nat /\ mutationQueue[u][i].write \in Nat
           /\ \A b : b \in ToSet(mutationQueue[u]) <=>
                       \E i \in 1..Len(mutationQueue[u]) : mutationQueue[u][i] = b
<1>1. mutationQueue[u] \in Seq(Batch)
  BY DEF TypeOK
<1>2. DOMAIN mutationQueue[u] = 1..Len(mutationQueue[u]) /\ Len(mutationQueue[u]) \in Nat
  BY <1>1, LenProperties
<1>3. \A i \in 1..Len(mutationQueue[u]) : mutationQueue[u][i] \in Batch
  BY <1>1, ElementOfSeq
<1>4. \A i \in 1..Len(mutationQueue[u]) :
         mutationQueue[u][i].id \in Nat /\ mutationQueue[u][i].write \in Nat
  BY <1>3 DEF Batch
<1>5. \A b : b \in ToSet(mutationQueue[u]) <=>
               \E i \in 1..Len(mutationQueue[u]) : mutationQueue[u][i] = b
  BY <1>2 DEF ToSet
<1> QED
  BY <1>1, <1>2, <1>3, <1>4, <1>5

\* The requests on the open stream are in order too: with the responses before them
\* they are an initial segment of the current user's queue.
LEMMA RequestsInOrder ==
    ASSUME Inv, LogInv
    PROVE  InOrder(requests)
<1> DEFINE q == mutationQueue[currentUser]
           n == Len(responses)
<1>1. /\ responses \in Seq(Batch) /\ requests \in Seq(Batch) /\ currentUser \in Users
      /\ n \in Nat /\ Len(requests) \in Nat
  BY DEF Inv, TypeOK
<1>2. CASE handshake # "complete"
  <2>1. Len(requests) = 0
    BY <1>2, EmptySeq DEF Inv, StreamInv, StreamConsistent
  <2> QED
    BY <2>1 DEF InOrder
<1>3. CASE handshake = "complete"
  <2>1. responses \o requests = writePipeline
    BY <1>3 DEF Inv, StreamInv, ResponsesMatchPipeline
  <2>2. /\ Len(writePipeline) = n + Len(requests)
        /\ \A i \in 1..(n + Len(requests)) :
              writePipeline[i] = IF i <= n THEN responses[i] ELSE requests[i - n]
    BY <1>1, <2>1, ConcatProperties
  <2>3. Len(writePipeline) <= Len(q) /\ \A i \in 1..Len(writePipeline) : writePipeline[i] = q[i]
    BY PipelineIsInitial DEF Inv, StreamInv, Initial
  <2>4. /\ Len(q) \in Nat
        /\ \A i \in 1..Len(q) : q[i].write \in Nat
        /\ \A b : b \in ToSet(q) <=> \E i \in 1..Len(q) : q[i] = b
    BY <1>1, QueueElements DEF Inv
  <2>5. \A i \in 1..Len(q) : q[i].user = currentUser /\ q[i].write \in 1..issued
    BY <1>1 DEF LogInv, QueuesOwned
  <2>6. \A i, j \in 1..Len(q) : i < j => q[i].write < q[j].write
    BY <1>1 DEF LogInv, WritesGrow
  <2>7. \A i \in 1..n : responses[i].write \in committed
    BY DEF Inv, StreamInv, AnswersJustified
  <2> HIDE DEF q, n
  <2>8. \A i \in 1..Len(requests) : n + i \in 1..Len(q) /\ requests[i] = q[n + i]
    <3> SUFFICES ASSUME NEW i \in 1..Len(requests)
                 PROVE  n + i \in 1..Len(q) /\ requests[i] = q[n + i]
      OBVIOUS
    <3>1. n + i \in 1..(n + Len(requests)) /\ ~ (n + i <= n) /\ (n + i) - n = i
      BY <1>1
    <3>2. n + i \in 1..Len(q)
      BY <1>1, <2>2, <2>3, <2>4
    <3> QED
      BY <3>1, <3>2, <2>2, <2>3
  <2>9. \A k \in 1..n : k \in 1..Len(q) /\ q[k] = responses[k]
    BY <1>1, <2>2, <2>3, <2>4
  <2> SUFFICES ASSUME NEW i \in 1..Len(requests)
               PROVE  /\ requests[i].write \in 1..issued
                      /\ requests[i] \in ToSet(mutationQueue[requests[i].user])
                      /\ \A c \in ToSet(mutationQueue[requests[i].user]) :
                            c.write < requests[i].write =>
                                \/ c.write \in Decided
                                \/ \E j \in 1..(i - 1) : requests[j].write = c.write
    BY DEF InOrder
  <2>10. n + i \in 1..Len(q) /\ requests[i] = q[n + i]
    BY <2>8
  <2>11. requests[i].user = currentUser /\ requests[i].write \in 1..issued
    BY <2>5, <2>10
  <2>12. mutationQueue[requests[i].user] = q
    BY <2>11 DEF q
  <2>13. requests[i] \in ToSet(q)
    BY <2>4, <2>10
  <2>14. ASSUME NEW c \in ToSet(q), c.write < requests[i].write
         PROVE  c.write \in Decided \/ \E j \in 1..(i - 1) : requests[j].write = c.write
    <3>1. PICK k \in 1..Len(q) : q[k] = c
      BY <2>4
    <3>2. k < n + i
      <4>1. ~ (k = n + i)
        BY <3>1, <2>4, <2>10, <2>14
      <4>2. ~ (n + i < k)
        BY <3>1, <2>4, <2>6, <2>10, <2>14
      <4> QED
        BY <4>1, <4>2, <2>4, <1>1
    <3>3. CASE k <= n
      <4>1. c = responses[k] /\ k \in 1..n
        BY <1>1, <3>1, <3>3, <2>9
      <4> QED
        BY <4>1, <2>7 DEF Decided
    <3>4. CASE k > n
      <4>1. k - n \in 1..(i - 1) /\ k - n \in 1..Len(requests) /\ n + (k - n) = k
        BY <1>1, <3>2, <3>4
      <4>2. requests[k - n] = c
        BY <4>1, <3>1, <2>8
      <4> QED
        BY <4>1, <4>2
    <3> QED
      BY <3>3, <3>4, <1>1
  <2> QED
    BY <2>11, <2>12, <2>13, <2>14
<1> QED
  BY <1>2, <1>3

\* A stream stays in order while the queues stay and the backend decides more.
LEMMA InOrderFrame ==
    ASSUME NEW s, InOrder(s), UNCHANGED <<mutationQueue, issued>>,
           committed \subseteq committed', rejected \subseteq rejected'
    PROVE  InOrder(s)'
<1>1. Decided \subseteq Decided'
  BY DEF Decided
<1> QED
  BY <1>1 DEF InOrder

\* Every stream the backend may still read, open or given up, is in order.
LEMMA StreamsInOrder ==
    ASSUME Inv, LogInv, NEW s \in abandoned \cup {requests}
    PROVE  InOrder(s) /\ s \in Seq(Batch)
<1>1. CASE s \in abandoned
  BY <1>1 DEF LogInv, AbandonedInOrder, Inv, TypeOK
<1>2. CASE s = requests
  BY <1>2, RequestsInOrder DEF InOrder, Inv, TypeOK
<1> QED
  BY <1>1, <1>2

\* What is left behind by closing a stream is in order when it is left.
LEMMA LeftInOrder ==
    ASSUME Inv, LogInv, AbandonRequests
    PROVE  \A s \in abandoned' : InOrder(s) /\ s \in Seq(Batch)
<1>1. abandoned' \subseteq abandoned \cup {requests}
  BY DEF AbandonRequests
<1> QED
  BY <1>1, StreamsInOrder

\* Leaving the requests of the open stream behind keeps what is left behind in order.
LEMMA AbandonKeepsOrder ==
    ASSUME Inv, LogInv, AbandonRequests,
           UNCHANGED <<mutationQueue, issued, committed, rejected>>
    PROVE  AbandonedInOrder'
<1> SUFFICES ASSUME NEW s \in abandoned'
             PROVE  InOrder(s)'
  BY DEF AbandonedInOrder
<1>1. InOrder(s)
  BY LeftInOrder
<1> QED
  BY <1>1, InOrderFrame

-----------------------------------------------------------------------------
(* The invariant is preserved: one lemma per kind of step. *)

\* A quiet step preserves the invariant.
LEMMA QuietKeepsLog ==
    ASSUME Inv, LogInv, Quiet
    PROVE  LogInv'
<1> USE DEF Quiet
<1>1. QueuesOwned' /\ WritesGrow' /\ WritesUnique' /\ OutcomeIsFinal'
  BY DEF LogInv, QueuesOwned, WritesGrow, WritesUnique, OutcomeIsFinal
<1>2. CallbacksUntold'
  BY DEF LogInv, CallbacksUntold
<1>3. WaitersAreQueued' /\ WaitersCover'
  BY DEF LogInv, WaitersAreQueued, WaitersCover
<1>4. AbandonedInOrder'
  BY AbandonKeepsOrder
<1> QED
  BY <1>1, <1>2, <1>3, <1>4 DEF LogInv

\* RegisterPendingWritesCallback preserves the invariant: the last batch of the queue
\* covers every write that is pending.
LEMMA RegistersKeepsLog ==
    ASSUME Inv, LogInv, Registers
    PROVE  LogInv'
<1> DEFINE q == mutationQueue[currentUser]
           new == [id |-> q[Len(q)].id, writes |-> Writes(ToSet(q))]
<1>1. /\ q # <<>> /\ pendingWritesCallbacks' = pendingWritesCallbacks \cup {new}
      /\ UNCHANGED <<mutationQueue, currentUser, mutationCallbacks, abandoned, committed,
                     rejected, toldOk, toldError, issued, faults>>
  BY DEF Registers
<1>2. /\ currentUser \in Users /\ q \in Seq(Batch) /\ Len(q) \in Nat
      /\ \A i \in 1..Len(q) : q[i].id \in Nat /\ q[i].write \in Nat
      /\ \A b : b \in ToSet(q) <=> \E i \in 1..Len(q) : q[i] = b
  <2>1. currentUser \in Users
    BY DEF Inv, TypeOK
  <2> QED
    BY <2>1, QueueElements DEF Inv
<1>3. Len(q) \in 1..Len(q)
  BY <1>1, <1>2, EmptySeq
<1>4. \A i \in 1..Len(q) : q[i].id <= q[Len(q)].id /\ q[i].write \in 1..issued
  BY <1>2, <1>3 DEF Inv, StoreInv, BatchIdsGrow, Ascending, LogInv, QueuesOwned
<1>5. new.id = q[Len(q)].id /\ new.writes = Writes(ToSet(q))
  OBVIOUS
<1> HIDE DEF new, q
<1>6. new.writes \subseteq 1..issued /\ \A b \in ToSet(q) : b.id <= new.id
  BY <1>2, <1>4, <1>5 DEF Writes
<1>7. WaitersAreQueued'
  BY <1>1, <1>3, <1>5 DEF LogInv, WaitersAreQueued, q
<1>8. WaitersCover'
  BY <1>1, <1>6 DEF LogInv, WaitersCover, q
<1>9. QueuesOwned' /\ WritesGrow' /\ WritesUnique' /\ OutcomeIsFinal' /\ CallbacksUntold'
  BY <1>1 DEF LogInv, QueuesOwned, WritesGrow, WritesUnique, OutcomeIsFinal, CallbacksUntold
<1>10. AbandonedInOrder'
  <2> SUFFICES ASSUME NEW s \in abandoned'
               PROVE  InOrder(s)'
    BY DEF AbandonedInOrder
  <2>1. InOrder(s)
    BY <1>1 DEF LogInv, AbandonedInOrder
  <2> QED
    BY <1>1, <2>1, InOrderFrame
<1> QED
  BY <1>7, <1>8, <1>9, <1>10 DEF LogInv

\* Deciding the first request of a stream preserves the invariant: what was behind it
\* on its stream now has nothing undecided ahead that was only there.
LEMMA DecidesKeepsLog ==
    ASSUME Inv, LogInv, NEW t \in abandoned \cup {requests}, Decides(t)
    PROVE  LogInv'
<1>1. /\ t # <<>>
      /\ \/ committed' = committed \cup {Head(t).write} /\ rejected' = rejected
         \/ rejected' = rejected \cup {Head(t).write} /\ committed' = committed
      /\ abandoned' \subseteq abandoned \cup {Tail(t)}
      /\ t \notin abandoned => abandoned' = abandoned
      /\ UNCHANGED <<mutationQueue, currentUser, mutationCallbacks, pendingWritesCallbacks,
                     toldOk, toldError, issued, faults>>
  BY DEF Decides
<1>2. QueuesOwned' /\ WritesGrow' /\ WritesUnique' /\ OutcomeIsFinal' /\ CallbacksUntold'
  BY <1>1 DEF LogInv, QueuesOwned, WritesGrow, WritesUnique, OutcomeIsFinal, CallbacksUntold
<1>3. WaitersAreQueued' /\ WaitersCover'
  BY <1>1 DEF LogInv, WaitersAreQueued, WaitersCover
<1>4. AbandonedInOrder'
  <2> SUFFICES ASSUME NEW s \in abandoned'
               PROVE  InOrder(s)'
    BY DEF AbandonedInOrder
  <2>1. CASE s \in abandoned
    <3>1. InOrder(s)
      BY <2>1 DEF LogInv, AbandonedInOrder
    <3> QED
      BY <1>1, <3>1, InOrderFrame
  <2>2. CASE t \in abandoned /\ s = Tail(t)
    <3>1. InOrder(t) /\ t \in Seq(Batch)
      BY <2>2 DEF LogInv, AbandonedInOrder, Inv, TypeOK
    <3>2. InOrder(t)'
      BY <1>1, <3>1, InOrderFrame
    <3>3. /\ Len(t) \in Nat \ {0} /\ Len(s) = Len(t) - 1 /\ Head(t) = t[1]
          /\ \A i \in 1..Len(s) : s[i] = t[i + 1]
      BY <1>1, <2>2, <3>1, HeadTailProperties, EmptySeq
    <3>4. t[1].write \in Decided'
      BY <1>1, <3>3 DEF Decided
    <3> SUFFICES ASSUME NEW i \in 1..Len(s)
                 PROVE  /\ s[i].write \in 1..issued'
                        /\ s[i].write \in Decided' \/ s[i] \in ToSet(mutationQueue'[s[i].user])
                        /\ \A c \in ToSet(mutationQueue'[s[i].user]) :
                              c.write < s[i].write =>
                                  \/ c.write \in Decided'
                                  \/ \E j \in 1..(i - 1) : s[j].write = c.write
      BY DEF InOrder
    <3>5. i + 1 \in 1..Len(t) /\ s[i] = t[i + 1]
      BY <3>3
    <3>6. /\ s[i].write \in 1..issued'
          /\ s[i].write \in Decided' \/ s[i] \in ToSet(mutationQueue'[s[i].user])
          /\ \A c \in ToSet(mutationQueue'[s[i].user]) :
                c.write < s[i].write =>
                    \/ c.write \in Decided'
                    \/ \E j \in 1..((i + 1) - 1) : t[j].write = c.write
      BY <3>2, <3>5 DEF InOrder
    <3>7. ASSUME NEW j \in 1..((i + 1) - 1)
          PROVE  t[j].write \in Decided' \/ (j - 1 \in 1..(i - 1) /\ s[j - 1] = t[j])
      <4>1. j = 1 \/ (j - 1 \in 1..(i - 1) /\ j - 1 \in 1..Len(s) /\ (j - 1) + 1 = j)
        BY <3>3
      <4> QED
        BY <4>1, <3>3, <3>4
    <3> QED
      BY <3>6, <3>7
  <2> QED
    BY <1>1, <2>1, <2>2
<1> QED
  BY <1>2, <1>3, <1>4 DEF LogInv

\* WriteMutations preserves the invariant: the new write is younger than every other.
LEMMA IssuesKeepsLog ==
    ASSUME Inv, LogInv, Issues
    PROVE  LogInv'
<1> DEFINE q == mutationQueue[currentUser]
<1>1. PICK b \in Batch :
        /\ b.user = currentUser /\ b.write = issued + 1 /\ issued' = issued + 1
        /\ \A i \in 1..Len(q) : q[i].id < b.id
        /\ mutationQueue' = [mutationQueue EXCEPT ![currentUser] = Append(@, b)]
        /\ \A u \in Users : mutationCallbacks'[u] \subseteq mutationCallbacks[u] \cup {b}
        /\ UNCHANGED <<currentUser, pendingWritesCallbacks, abandoned, committed, rejected,
                       toldOk, toldError, faults>>
  BY DEF Issues
<1>2. currentUser \in Users /\ issued \in Nat /\ mutationQueue \in [Users -> Seq(Batch)]
  BY DEF Inv, TypeOK
<1>3. \A u \in Users :
        /\ Len(mutationQueue[u]) \in Nat
        /\ \A i \in 1..Len(mutationQueue[u]) :
              mutationQueue[u][i].write \in 1..issued /\ mutationQueue[u][i].user = u
        /\ \A c : c \in ToSet(mutationQueue[u]) <=>
                    \E i \in 1..Len(mutationQueue[u]) : mutationQueue[u][i] = c
  BY QueueElements DEF Inv, LogInv, QueuesOwned
<1> DEFINE a == Append(q, b)
<1>4. /\ a \in Seq(Batch) /\ Len(a) = Len(q) + 1
      /\ \A i \in 1..Len(q) : a[i] = q[i]
      /\ a[Len(q) + 1] = b
  <2>1. q \in Seq(Batch)
    BY <1>2
  <2> QED
    BY <2>1, AppendProperties
<1>5. /\ mutationQueue'[currentUser] = a
      /\ \A u \in Users : u # currentUser => mutationQueue'[u] = mutationQueue[u]
  BY <1>1, <1>2
<1>6. ToSet(a) = ToSet(q) \cup {b}
  <2>1. DOMAIN a = 1..Len(a) /\ DOMAIN q = 1..Len(q) /\ Len(q) \in Nat
    BY <1>2, <1>4, LenProperties
  <2> HIDE DEF a, q
  <2> QED
    BY <2>1, <1>4 DEF ToSet
<1> HIDE DEF a, q
<1>7. \A u \in Users : ToSet(mutationQueue'[u]) =
          IF u = currentUser THEN ToSet(mutationQueue[u]) \cup {b} ELSE ToSet(mutationQueue[u])
  BY <1>5, <1>6 DEF q
<1>8. \A u \in Users : \A c \in ToSet(mutationQueue[u]) : c.write \in 1..issued /\ c.user = u
  <2> SUFFICES ASSUME NEW u \in Users, NEW c \in ToSet(mutationQueue[u])
               PROVE  c.write \in 1..issued /\ c.user = u
    OBVIOUS
  <2>1. PICK i \in 1..Len(mutationQueue[u]) : mutationQueue[u][i] = c
    BY <1>3
  <2> QED
    BY <2>1, <1>3
<1>9. QueuesOwned'
  <2>1. \A i \in 1..Len(q) : q[i].user = currentUser /\ q[i].write \in 1..issued
    BY <1>2, <1>3 DEF q
  <2>2. 1..issued \subseteq 1..issued' /\ b.write \in 1..issued' /\ Len(q) \in Nat
    BY <1>1, <1>2, <1>3 DEF q
  <2>3. \A i \in 1..Len(a) : a[i].user = currentUser /\ a[i].write \in 1..issued'
    <3>1. \A i \in 1..Len(a) : i \in 1..Len(q) \/ i = Len(q) + 1
      BY <2>2, <1>4
    <3> QED
      BY <3>1, <2>1, <2>2, <1>1, <1>4
  <2>4. \A u \in Users : u # currentUser => \A i \in 1..Len(mutationQueue[u]) :
            mutationQueue[u][i].user = u /\ mutationQueue[u][i].write \in 1..issued'
    BY <2>2, <1>3
  <2> QED
    BY <2>3, <2>4, <1>5 DEF QueuesOwned
<1>10. WritesGrow'
  <2>1. \A i, j \in 1..Len(a) : i < j => a[i].write < a[j].write
    <3>1. Len(q) \in Nat /\ \A i \in 1..Len(q) : q[i].write \in 1..issued
      BY <1>2, <1>3 DEF q
    <3>2. \A i, j \in 1..Len(q) : i < j => q[i].write < q[j].write
      BY <1>2 DEF LogInv, WritesGrow, q
    <3>3. \A i, j \in 1..Len(a) : i < j =>
              i \in 1..Len(q) /\ (j \in 1..Len(q) \/ j = Len(q) + 1)
      BY <3>1, <1>4
    <3>4. \A i \in 1..Len(q) : q[i].write < b.write
      BY <3>1, <1>1, <1>2
    <3> QED
      BY <3>2, <3>3, <3>4, <1>4
  <2> QED
    BY <2>1, <1>1, <1>5 DEF LogInv, WritesGrow
<1>11. WritesUnique'
  <2> SUFFICES ASSUME NEW u \in Users, NEW v \in Users,
                      NEW c \in ToSet(mutationQueue'[u]), NEW d \in ToSet(mutationQueue'[v]),
                      c.write = d.write
               PROVE  u = v
    BY Zenon DEF WritesUnique
  <2>1. issued + 1 \notin 1..issued
    BY <1>2
  <2>2. /\ c \in ToSet(mutationQueue[u]) \/ (u = currentUser /\ c = b)
        /\ d \in ToSet(mutationQueue[v]) \/ (v = currentUser /\ d = b)
    BY <1>7
  <2>3. CASE c \in ToSet(mutationQueue[u]) /\ d \in ToSet(mutationQueue[v])
    BY <2>3 DEF LogInv, WritesUnique
  <2>4. CASE u = currentUser /\ c = b
    BY <2>1, <2>2, <2>4, <1>1, <1>8
  <2>5. CASE v = currentUser /\ d = b
    BY <2>1, <2>2, <2>5, <1>1, <1>8
  <2> QED
    BY <2>2, <2>3, <2>4, <2>5
<1>12. CallbacksUntold' /\ OutcomeIsFinal'
  <2>1. issued + 1 \notin 1..issued
    BY <1>2
  <2>2. toldOk' \cup toldError' \subseteq 1..issued'
    BY <1>1, <1>2 DEF LogInv, CallbacksUntold
  <2> QED
    BY <2>1, <2>2, <1>1 DEF LogInv, CallbacksUntold, OutcomeIsFinal
<1>13. WaitersAreQueued'
  BY <1>1, <1>2, <1>3, <1>4, <1>5 DEF LogInv, WaitersAreQueued, q
<1>14. WaitersCover'
  <2>1. issued + 1 \notin 1..issued /\ 1..issued \subseteq 1..issued'
    BY <1>1, <1>2
  <2> QED
    BY <2>1, <1>1, <1>2, <1>7 DEF LogInv, WaitersCover
<1>15. AbandonedInOrder'
  <2> SUFFICES ASSUME NEW s \in abandoned, NEW i \in 1..Len(s)
               PROVE  /\ s[i].write \in 1..issued'
                      /\ s[i].write \in Decided' \/ s[i] \in ToSet(mutationQueue'[s[i].user])
                      /\ \A c \in ToSet(mutationQueue'[s[i].user]) :
                            c.write < s[i].write =>
                                \/ c.write \in Decided'
                                \/ \E j \in 1..(i - 1) : s[j].write = c.write
    BY <1>1 DEF AbandonedInOrder, InOrder
  <2>1. /\ s[i].write \in 1..issued
        /\ s[i].write \in Decided \/ s[i] \in ToSet(mutationQueue[s[i].user])
        /\ \A c \in ToSet(mutationQueue[s[i].user]) :
              c.write < s[i].write =>
                  c.write \in Decided \/ \E j \in 1..(i - 1) : s[j].write = c.write
    BY DEF LogInv, AbandonedInOrder, InOrder
  <2>2. s[i].user \in Users
    <3>1. s \in Seq(Batch)
      BY DEF Inv, TypeOK
    <3>2. s[i] \in Batch
      BY <3>1, ElementOfSeq
    <3> QED
      BY <3>2 DEF Batch
  <2>3. Decided' = Decided
    BY <1>1 DEF Decided
  <2>4. ~ (b.write < s[i].write) /\ s[i].write \in 1..issued'
    BY <1>1, <1>2, <2>1
  <2> QED
    BY <2>1, <2>2, <2>3, <2>4, <1>7
<1> QED
  BY <1>9, <1>10, <1>11, <1>12, <1>13, <1>14, <1>15 DEF LogInv

\* The head of the pipeline is the first of its queue, registered under its own number.
LEMMA HeadOfQueue ==
    ASSUME Inv, LogInv, writePipeline # <<>>,
           NEW q, q = mutationQueue[currentUser], NEW batch, batch = Head(writePipeline)
    PROVE  /\ currentUser \in Users
           /\ q \in Seq(Batch) /\ q # <<>> /\ q[1] = batch /\ Head(q) = batch
           /\ batch \in Batch /\ batch.write \in 1..issued
           /\ Len(q) \in Nat \ {0} /\ Len(Tail(q)) = Len(q) - 1
           /\ \A i \in 1..Len(Tail(q)) : Tail(q)[i] = q[i + 1]
           /\ ToSet(q) = ToSet(Tail(q)) \cup {batch}
           /\ \A b \in ToSet(Tail(q)) : b.write # batch.write /\ b.id # batch.id
           /\ \A b \in ToSet(Tail(q)) : batch.id < b.id
           /\ Writes(Found) \subseteq {batch.write}
           /\ Found # {} => batch \in mutationCallbacks[currentUser]
<1>1. /\ q \in Seq(Batch) /\ q # <<>> /\ batch \in Batch
      /\ Len(q) \in Nat \ {0} /\ Len(Tail(q)) = Len(q) - 1 /\ Tail(q) \in Seq(Batch)
      /\ \A i \in 1..Len(Tail(q)) : Tail(q)[i] = q[i + 1]
      /\ ToSet(q) = ToSet(Tail(q)) \cup {batch}
      /\ \A c \in ToSet(q) : c.id = batch.id => c = batch
  BY RemoveHeadBatch
<1>2. currentUser \in Users /\ writePipeline \in Seq(Batch)
  BY DEF Inv, TypeOK
<1>3. q[1] = batch /\ Head(q) = batch /\ 1 \in 1..Len(q)
  <2>1. 1 \in 1..Len(writePipeline) /\ Head(writePipeline) = writePipeline[1]
    BY <1>2, EmptySeq, HeadTailProperties
  <2>2. writePipeline[1] = q[1]
    BY <2>1, PipelineIsInitial DEF Inv, StreamInv, Initial
  <2>3. Head(q) = q[1]
    BY <1>1, HeadTailProperties
  <2> QED
    BY <2>1, <2>2, <2>3, <1>1
<1>4. batch.write \in 1..issued
  BY <1>2, <1>3 DEF LogInv, QueuesOwned
<1>5. \A b \in ToSet(Tail(q)) : \E i \in 1..Len(q) : 1 < i /\ q[i] = b
  <2>1. DOMAIN Tail(q) = 1..Len(Tail(q))
    BY <1>1, LenProperties
  <2>2. \A i \in 1..Len(Tail(q)) : i + 1 \in 1..Len(q) /\ 1 < i + 1
    BY <1>1
  <2> QED
    BY <2>1, <2>2, <1>1 DEF ToSet
<1>6. \A i \in 1..Len(q) : q[i].id \in Nat /\ q[i].write \in Nat
  BY <1>2, QueueElements DEF Inv
<1>7. \A i \in 1..Len(q) : 1 < i => q[1].write < q[i].write /\ q[1].id < q[i].id
  BY <1>2, <1>3 DEF LogInv, WritesGrow, Inv, StoreInv, BatchIdsGrow, Ascending
<1>8. \A b \in ToSet(Tail(q)) :
         b.write # batch.write /\ b.id # batch.id /\ batch.id < b.id
  BY <1>3, <1>5, <1>6, <1>7
<1>9. Found \subseteq {batch}
  BY <1>1, <1>2 DEF Found, Inv, StoreInv, CallbacksAreQueued
<1> QED
  BY <1>1, <1>2, <1>3, <1>4, <1>8, <1>9 DEF Writes, Found

\* Settling the head of the pipeline preserves the invariant: nobody else waits for the
\* write that is told, and no waiter that stays waits under the id that goes.
LEMMA SettlesKeepsLog ==
    ASSUME Inv, LogInv, Settles
    PROVE  LogInv'
<1> DEFINE batch == Head(writePipeline)
           q == mutationQueue[currentUser]
<1>1. /\ writePipeline # <<>>
      /\ batch.write \in Decided
      /\ \/ toldOk' = toldOk \cup Writes(Found) /\ toldError' = toldError
         \/ toldOk' = toldOk /\ toldError' = toldError \cup Writes(Found)
      /\ mutationQueue' = [mutationQueue EXCEPT ![currentUser] = Tail(@)]
      /\ mutationCallbacks' = [mutationCallbacks EXCEPT ![currentUser] = @ \ Found]
      /\ pendingWritesCallbacks' = {c \in pendingWritesCallbacks : c.id # batch.id}
      /\ UNCHANGED <<currentUser, committed, rejected, issued>>
      /\ AbandonRequests
  BY DEF Settles, Decided
<1>2. /\ currentUser \in Users /\ q \in Seq(Batch) /\ q[1] = batch
      /\ batch.write \in 1..issued
      /\ Len(q) \in Nat \ {0} /\ Len(Tail(q)) = Len(q) - 1
      /\ \A i \in 1..Len(Tail(q)) : Tail(q)[i] = q[i + 1]
      /\ ToSet(q) = ToSet(Tail(q)) \cup {batch}
      /\ \A b \in ToSet(Tail(q)) : b.write # batch.write /\ b.id # batch.id
      /\ Writes(Found) \subseteq {batch.write}
      /\ Found # {} => batch \in mutationCallbacks[currentUser]
  BY <1>1, HeadOfQueue
<1>3. mutationQueue \in [Users -> Seq(Batch)] /\ mutationCallbacks \in [Users -> SUBSET Batch]
  BY DEF Inv, TypeOK
<1>4. /\ mutationQueue'[currentUser] = Tail(q)
      /\ \A u \in Users : u # currentUser => mutationQueue'[u] = mutationQueue[u]
      /\ mutationCallbacks'[currentUser] = mutationCallbacks[currentUser] \ Found
      /\ \A u \in Users : u # currentUser => mutationCallbacks'[u] = mutationCallbacks[u]
  BY <1>1, <1>2, <1>3
<1>5. batch \in ToSet(q) /\ \A u \in Users : mutationCallbacks[u] \subseteq ToSet(mutationQueue[u])
  BY <1>2 DEF Inv, StoreInv, CallbacksAreQueued
<1>6. Found = {c \in mutationCallbacks[currentUser] : c.id = batch.id}
  BY DEF Found
<1> HIDE DEF batch, q
<1>7. \A u \in Users : ToSet(mutationQueue'[u]) \subseteq ToSet(mutationQueue[u])
  BY <1>2, <1>4 DEF q
<1>8. \A i \in 1..Len(Tail(q)) : i + 1 \in 1..Len(q)
  BY <1>2
<1>9. QueuesOwned'
  <2>1. \A i \in 1..Len(q) : q[i].user = currentUser /\ q[i].write \in 1..issued
    BY <1>2 DEF LogInv, QueuesOwned, q
  <2>2. \A i \in 1..Len(Tail(q)) : Tail(q)[i].user = currentUser /\ Tail(q)[i].write \in 1..issued
    BY <2>1, <1>2, <1>8
  <2> QED
    BY <2>2, <1>1, <1>4 DEF LogInv, QueuesOwned
<1>10. WritesGrow'
  <2>1. \A i, j \in 1..Len(q) : i < j => q[i].write < q[j].write
    BY <1>2 DEF LogInv, WritesGrow, q
  <2>2. \A i, j \in 1..Len(Tail(q)) : i < j => Tail(q)[i].write < Tail(q)[j].write
    <3>1. \A i, j \in 1..Len(Tail(q)) : i < j => i + 1 < j + 1
      BY <1>2
    <3> QED
      BY <3>1, <2>1, <1>2, <1>8
  <2> QED
    BY <2>2, <1>1, <1>4 DEF LogInv, WritesGrow
<1>11. WritesUnique'
  BY <1>7 DEF LogInv, WritesUnique
<1>12. CallbacksUntold'
  <2>1. toldOk' \cup toldError' \subseteq 1..issued'
    BY <1>1, <1>2 DEF LogInv, CallbacksUntold
  <2>2. ASSUME NEW u \in Users, NEW c \in mutationCallbacks'[u]
        PROVE  c.write \notin toldOk' \cup toldError'
    <3>1. c \in mutationCallbacks[u] /\ c \in ToSet(mutationQueue[u])
      BY <2>2, <1>4, <1>5
    <3>2. c.write \notin toldOk \cup toldError
      BY <3>1 DEF LogInv, CallbacksUntold
    <3>3. c.write # batch.write
      <4>1. CASE u = currentUser
        <5>1. c # batch \/ Found = {}
          BY <4>1, <1>4, <1>6, <2>2, <1>2
        <5>2. CASE c # batch
          BY <5>2, <4>1, <3>1, <1>2 DEF q
        <5>3. CASE Found = {}
          BY <5>3, <4>1, <3>1, <1>2, <1>6 DEF q
        <5> QED
          BY <5>1, <5>2, <5>3
      <4>2. CASE u # currentUser
        BY <4>2, <3>1, <1>2, <1>5 DEF LogInv, WritesUnique, q
      <4> QED
        BY <4>1, <4>2
    <3> QED
      BY <3>2, <3>3, <1>1, <1>2
  <2> QED
    BY <2>1, <2>2 DEF CallbacksUntold
<1>13. OutcomeIsFinal'
  <2>1. Found # {} => batch.write \notin toldOk \cup toldError
    BY <1>2 DEF LogInv, CallbacksUntold
  <2>2. Found = {} => Writes(Found) = {}
    BY DEF Writes
  <2> QED
    BY <2>1, <2>2, <1>1, <1>2 DEF LogInv, OutcomeIsFinal
<1>14. WaitersAreQueued'
  <2> SUFFICES ASSUME NEW c \in pendingWritesCallbacks'
               PROVE  \E i \in 1..Len(Tail(q)) : Tail(q)[i].id = c.id
    <3>1. mutationQueue'[currentUser'] = Tail(q)
      BY <1>1, <1>4
    <3> QED
      BY <3>1 DEF WaitersAreQueued
  <2>0. c \in pendingWritesCallbacks /\ c.id # batch.id
    BY <1>1
  <2>1. PICK i \in 1..Len(q) : q[i].id = c.id
    BY <2>0 DEF LogInv, WaitersAreQueued, q
  <2>2. i # 1
    BY <2>0, <2>1, <1>2
  <2>3. i - 1 \in 1..Len(Tail(q)) /\ (i - 1) + 1 = i
    BY <2>1, <2>2, <1>2
  <2> QED
    BY <2>1, <2>3, <1>2
<1>15. WaitersCover'
  BY <1>1, <1>2, <1>7 DEF LogInv, WaitersCover
<1>16. AbandonedInOrder'
  <2> SUFFICES ASSUME NEW s \in abandoned', NEW i \in 1..Len(s)
               PROVE  /\ s[i].write \in 1..issued
                      /\ s[i].write \in Decided \/ s[i] \in ToSet(mutationQueue'[s[i].user])
                      /\ \A c \in ToSet(mutationQueue'[s[i].user]) :
                            c.write < s[i].write =>
                                \/ c.write \in Decided
                                \/ \E j \in 1..(i - 1) : s[j].write = c.write
    BY <1>1 DEF AbandonedInOrder, InOrder, Decided
  <2>1. InOrder(s) /\ s \in Seq(Batch)
    BY <1>1, LeftInOrder
  <2>2. /\ s[i].write \in 1..issued
        /\ s[i].write \in Decided \/ s[i] \in ToSet(mutationQueue[s[i].user])
        /\ \A c \in ToSet(mutationQueue[s[i].user]) :
              c.write < s[i].write =>
                  c.write \in Decided \/ \E j \in 1..(i - 1) : s[j].write = c.write
    BY <2>1 DEF InOrder
  <2>3. s[i].user \in Users
    <3>1. s[i] \in Batch
      BY <2>1, ElementOfSeq
    <3> QED
      BY <3>1 DEF Batch
  <2>4. s[i] \in ToSet(mutationQueue[s[i].user]) =>
            s[i] = batch \/ s[i] \in ToSet(mutationQueue'[s[i].user])
    BY <2>3, <1>2, <1>4 DEF q
  <2> QED
    BY <2>2, <2>3, <2>4, <1>1, <1>7
<1> QED
  BY <1>9, <1>10, <1>11, <1>12, <1>13, <1>14, <1>15, <1>16 DEF LogInv

\* A crash after the user was told preserves the invariant: nobody waits any more.
LEMMA DiesTellingKeepsLog ==
    ASSUME Inv, LogInv, DiesTelling
    PROVE  LogInv'
<1> DEFINE batch == Head(writePipeline)
<1>1. /\ writePipeline # <<>>
      /\ toldOk' = toldOk \cup Writes(Found)
      /\ mutationCallbacks' = [u \in Users |-> {}]
      /\ pendingWritesCallbacks' = {}
      /\ UNCHANGED <<mutationQueue, toldError, committed, rejected, issued>>
      /\ AbandonRequests
  BY DEF DiesTelling
<1>2. /\ currentUser \in Users /\ batch.write \in 1..issued
      /\ Writes(Found) \subseteq {batch.write}
      /\ Found # {} => batch \in mutationCallbacks[currentUser]
  BY <1>1, HeadOfQueue
<1> HIDE DEF batch
<1>3. QueuesOwned' /\ WritesGrow' /\ WritesUnique'
  BY <1>1 DEF LogInv, QueuesOwned, WritesGrow, WritesUnique
<1>4. CallbacksUntold'
  BY <1>1, <1>2 DEF LogInv, CallbacksUntold
<1>5. OutcomeIsFinal'
  <2>1. Found # {} => batch.write \notin toldOk \cup toldError
    BY <1>2 DEF LogInv, CallbacksUntold
  <2>2. Found = {} => Writes(Found) = {}
    BY DEF Writes
  <2> QED
    BY <2>1, <2>2, <1>1, <1>2 DEF LogInv, OutcomeIsFinal
<1>6. WaitersAreQueued' /\ WaitersCover'
  BY <1>1 DEF WaitersAreQueued, WaitersCover
<1>7. AbandonedInOrder'
  BY <1>1, AbandonKeepsOrder
<1> QED
  BY <1>3, <1>4, <1>5, <1>6, <1>7 DEF LogInv

-----------------------------------------------------------------------------
(* The induction. *)

\* A fresh client satisfies the invariant.
LEMMA InitEstablishesLog ==
    ASSUME Init
    PROVE  LogInv
<1>1. \A u \in Users : Len(mutationQueue[u]) = 0 /\ ToSet(mutationQueue[u]) = {}
  BY DEF Init, ToSet
<1>2. QueuesOwned /\ WritesGrow /\ WritesUnique
  BY <1>1 DEF QueuesOwned, WritesGrow, WritesUnique
<1>3. CallbacksUntold /\ OutcomeIsFinal /\ WaitersAreQueued /\ WaitersCover
      /\ AbandonedInOrder
  BY DEF Init, CallbacksUntold, OutcomeIsFinal, WaitersAreQueued, WaitersCover,
         AbandonedInOrder
<1> QED
  BY <1>2, <1>3 DEF LogInv

\* Every step preserves the invariant: one case per kind of step.
LEMMA NextKeepsLog ==
    ASSUME Inv, LogInv, [Next]_vars
    PROVE  LogInv'
BY StepKinds, IssuesKeepsLog, SettlesKeepsLog, DiesTellingKeepsLog, DecidesKeepsLog,
   RegistersKeepsLog, QuietKeepsLog

\* The invariant about writes, outcomes and waiters holds in every reachable state, for
\* any users, any pipeline length and whether or not a status can overtake a response.
THEOREM LogInvHolds == Spec => []LogInv
<1>1. Init => LogInv
  BY InitEstablishesLog
<1>2. Inv /\ LogInv /\ [Next]_vars => LogInv'
  BY NextKeepsLog
<1> QED
  BY <1>1, <1>2, InvHolds, PTL DEF Spec

\* NotifyUser never takes back an outcome: no write is reported both as committed and as
\* failed, also when the process dies after telling or a status overtakes a response.
THEOREM OutcomeIsFinalHolds == Spec => []OutcomeIsFinal
<1>1. LogInv => OutcomeIsFinal
  BY DEF LogInv
<1> QED
  BY <1>1, LogInvHolds, PTL

\* An outstanding waitForPendingWrites waits under the id of a batch that is queued.
THEOREM WaitersAreQueuedHolds == Spec => []WaitersAreQueued
<1>1. LogInv => WaitersAreQueued
  BY DEF LogInv
<1> QED
  BY <1>1, LogInvHolds, PTL

-----------------------------------------------------------------------------
(* The action properties. *)

\* TriggerPendingWriteCallbacks answers a waiter only when every write that was pending
\* at its call has left the queue.
THEOREM WaitersCompleteHolds == Spec => WaitersComplete
<1> DEFINE Complete == faults' = faults =>
              \A c \in pendingWritesCallbacks \ pendingWritesCallbacks' :
                  c.writes \cap Writes(ToSet(mutationQueue'[currentUser])) = {}
<1>1. ASSUME Inv, LogInv, [Next]_vars
      PROVE  Complete
  <2> SUFFICES ASSUME faults' = faults,
                      NEW c \in pendingWritesCallbacks, c \notin pendingWritesCallbacks'
               PROVE  c.writes \cap Writes(ToSet(mutationQueue'[currentUser])) = {}
    OBVIOUS
  <2>1. faults # faults + 1
    BY <1>1 DEF Inv, TypeOK
  <2>2. Settles
    BY <1>1, <2>1, StepKinds DEF Issues, DiesTelling, Decides, Registers, Quiet
  <2> DEFINE batch == Head(writePipeline)
             q == mutationQueue[currentUser]
  <2>3. /\ writePipeline # <<>> /\ c.id = batch.id
        /\ mutationQueue' = [mutationQueue EXCEPT ![currentUser] = Tail(@)]
    BY <2>2 DEF Settles
  <2>4. /\ currentUser \in Users /\ batch \in Batch
        /\ ToSet(q) = ToSet(Tail(q)) \cup {batch} /\ q \in Seq(Batch)
        /\ \A b \in ToSet(Tail(q)) : batch.id < b.id
    BY <1>1, <2>3, HeadOfQueue
  <2>5. mutationQueue'[currentUser] = Tail(q)
    BY <1>1, <2>3, <2>4 DEF Inv, TypeOK
  <2>6. \A b \in ToSet(q) : b.write \in c.writes => b.id <= c.id
    BY <1>1 DEF LogInv, WaitersCover
  <2>7. \A b \in ToSet(q) : b.id \in Nat
    BY <1>1, <2>4, QueueElements DEF Inv
  <2>8. batch.id \in Nat
    BY <2>4 DEF Batch
  <2> HIDE DEF batch, q
  <2>9. \A b \in ToSet(Tail(q)) : b.write \notin c.writes
    BY <2>3, <2>4, <2>6, <2>7, <2>8
  <2> QED
    BY <2>5, <2>9 DEF Writes
<1>2. Inv /\ LogInv /\ [Next]_vars => [Complete]_vars
  BY <1>1
<1> QED
  BY <1>2, InvHolds, LogInvHolds, PTL DEF Spec, WaitersComplete

\* What a step that decides a write decides: nothing but the first request of a stream,
\* and the older writes in its user's queue are decided before.
LEMMA DecidesFirst ==
    ASSUME Inv, LogInv, NEW s \in abandoned \cup {requests}, Decides(s)
    PROVE  /\ s[1] = Head(s) /\ s[1] \in Batch
           /\ Decided' \ Decided \subseteq {s[1].write}
           /\ s[1].write \in 1..issued
           /\ s[1].write \in Decided \/ s[1] \in ToSet(mutationQueue[s[1].user])
           /\ \A c \in ToSet(mutationQueue[s[1].user]) :
                 c.write < s[1].write => c.write \in Decided
<1>1. s # <<>> /\ s \in Seq(Batch)
  BY DEF Decides, Inv, TypeOK
<1>2. s[1] = Head(s) /\ 1 \in 1..Len(s)
  BY <1>1, EmptySeq, HeadTailProperties
<1>3. s[1] \in Batch
  BY <1>1, <1>2, ElementOfSeq
<1>4. Decided' \ Decided \subseteq {s[1].write}
  BY <1>2 DEF Decides, Decided
<1>5. InOrder(s)
  BY StreamsInOrder
<1>6. ~ \E j \in 1..(1 - 1) : TRUE
  OBVIOUS
<1> QED
  BY <1>2, <1>3, <1>4, <1>5, <1>6 DEF InOrder

\* The backend first decides a user's writes in the order they were written, also when
\* a stream the client has given up is served after a resend.
THEOREM DecidedInOrderHolds == Spec => DecidedInOrder
<1> DEFINE Ordered == \A b \in InFlight :
              b.write \in Decided' \ Decided =>
                  \A c \in ToSet(mutationQueue[b.user]) :
                      c.write < b.write => c.write \in Decided
<1>1. ASSUME Inv, LogInv, [Next]_vars
      PROVE  Ordered
  <2> SUFFICES ASSUME NEW b \in InFlight, b.write \in Decided' \ Decided,
                      NEW c \in ToSet(mutationQueue[b.user]), c.write < b.write
               PROVE  c.write \in Decided
    OBVIOUS
  <2>1. PICK s \in abandoned \cup {requests} : Decides(s)
    BY <1>1, StepKinds DEF Issues, Settles, DiesTelling, Registers, Quiet, Decided
  <2>2. /\ s[1] \in Batch /\ b.write = s[1].write
        /\ s[1] \in ToSet(mutationQueue[s[1].user])
        /\ \A d \in ToSet(mutationQueue[s[1].user]) :
              d.write < s[1].write => d.write \in Decided
    BY <1>1, <2>1, DecidesFirst
  \* b need not be s[1] itself, but it is the same write, hence the same user's.
  <2>3. b.user = s[1].user
    <3>1. PICK r \in abandoned \cup {requests} : b \in ToSet(r)
      BY DEF InFlight
    <3>2. InOrder(r) /\ r \in Seq(Batch)
      BY <1>1, StreamsInOrder
    <3>3. PICK i \in 1..Len(r) : r[i] = b
      BY <3>1, <3>2, LenProperties DEF ToSet
    <3>4. b \in Batch
      BY <3>2, <3>3, ElementOfSeq
    <3>5. b \in ToSet(mutationQueue[b.user])
      BY <3>2, <3>3 DEF InOrder
    <3>6. b.user \in Users /\ s[1].user \in Users
      BY <2>2, <3>4 DEF Batch
    <3> QED
      BY <1>1, <2>2, <3>5, <3>6 DEF LogInv, WritesUnique
  <2> QED
    BY <2>2, <2>3
<1>2. Inv /\ LogInv /\ [Next]_vars => [Ordered]_vars
  BY <1>1
<1> QED
  BY <1>2, InvHolds, LogInvHolds, PTL DEF Spec, DecidedInOrder

-----------------------------------------------------------------------------
(* The write path implements the log. *)

\* The numbers of the writes of a queue, and the log the queues stand for.
WritesOf(q) == [i \in DOMAIN q |-> q[i].write]

LogOf == [u \in Users |-> WritesOf(mutationQueue[u])]

\* The numbers of a queue are a sequence as long as it.
LEMMA WritesOfType ==
    ASSUME NEW q \in Seq(Batch)
    PROVE  /\ WritesOf(q) \in Seq(Nat) /\ Len(WritesOf(q)) = Len(q)
           /\ DOMAIN WritesOf(q) = 1..Len(q)
           /\ \A i \in 1..Len(q) : WritesOf(q)[i] = q[i].write
<1>1. DOMAIN q = 1..Len(q) /\ Len(q) \in Nat
  BY LenProperties
<1>2. \A i \in 1..Len(q) : q[i] \in Batch
  BY ElementOfSeq
<1>3. \A i \in 1..Len(q) : q[i].write \in Nat
  BY <1>2 DEF Batch
<1>4. WritesOf(q) \in [1..Len(q) -> Nat]
  BY <1>1, <1>3 DEF WritesOf
<1>5. WritesOf(q) \in Seq(Nat) /\ Len(WritesOf(q)) = Len(q)
  BY <1>1, <1>4, IsASeq, LenProperties
<1> QED
  BY <1>1, <1>4, <1>5 DEF WritesOf

\* Storing a batch appends its number.
LEMMA WritesOfAppend ==
    ASSUME NEW q \in Seq(Batch), NEW b \in Batch
    PROVE  WritesOf(Append(q, b)) = Append(WritesOf(q), b.write)
<1> DEFINE a == Append(q, b)
           w == WritesOf(q)
           x == Append(w, b.write)
<1>1. b.write \in Nat
  BY DEF Batch
<1>2. /\ a \in Seq(Batch) /\ Len(a) = Len(q) + 1
      /\ \A i \in 1..Len(q) : a[i] = q[i]
      /\ a[Len(q) + 1] = b
  BY AppendProperties
<1>3. /\ w \in Seq(Nat) /\ Len(w) = Len(q) /\ Len(q) \in Nat
      /\ \A i \in 1..Len(q) : w[i] = q[i].write
  BY WritesOfType
<1> HIDE DEF a, w
<1>4. /\ x \in Seq(Nat) /\ Len(x) = Len(w) + 1
      /\ \A i \in 1..Len(w) : x[i] = w[i]
      /\ x[Len(w) + 1] = b.write
  BY <1>1, <1>3, AppendProperties
<1> HIDE DEF x
<1>5. /\ WritesOf(a) \in Seq(Nat) /\ Len(WritesOf(a)) = Len(a)
      /\ \A i \in 1..Len(a) : WritesOf(a)[i] = a[i].write
  BY <1>2, WritesOfType
<1>6. \A i \in 1..Len(a) : i \in 1..Len(q) \/ i = Len(q) + 1
  BY <1>2, <1>3
<1>7. \A i \in 1..Len(a) : WritesOf(a)[i] = x[i]
  BY <1>2, <1>3, <1>4, <1>5, <1>6
<1>8. WritesOf(a) = x
  BY <1>2, <1>3, <1>4, <1>5, <1>7, SeqEqual
<1> QED
  BY <1>8 DEF a, x, w

\* Removing the first batch removes the first number.
LEMMA WritesOfTail ==
    ASSUME NEW q \in Seq(Batch), q # <<>>
    PROVE  /\ WritesOf(Tail(q)) = Tail(WritesOf(q))
           /\ WritesOf(q) # <<>> /\ Head(WritesOf(q)) = Head(q).write
<1> DEFINE w == WritesOf(q)
           a == Tail(q)
<1>1. /\ w \in Seq(Nat) /\ Len(w) = Len(q) /\ Len(q) \in Nat
      /\ \A i \in 1..Len(q) : w[i] = q[i].write
  BY WritesOfType
<1>2. Len(q) # 0 /\ Head(q) = q[1]
  BY EmptySeq, HeadTailProperties
<1>3. /\ a \in Seq(Batch) /\ Len(a) = Len(q) - 1
      /\ \A i \in 1..Len(a) : a[i] = q[i + 1]
  BY HeadTailProperties
<1> HIDE DEF w, a
<1>4. w # <<>>
  BY <1>1, <1>2, EmptySeq
<1>5. /\ Tail(w) \in Seq(Nat) /\ Len(Tail(w)) = Len(w) - 1 /\ Head(w) = w[1]
      /\ \A i \in 1..Len(Tail(w)) : Tail(w)[i] = w[i + 1]
  BY <1>1, <1>4, HeadTailProperties
<1>6. /\ WritesOf(a) \in Seq(Nat) /\ Len(WritesOf(a)) = Len(a)
      /\ \A i \in 1..Len(a) : WritesOf(a)[i] = a[i].write
  BY <1>3, WritesOfType
<1>7. Len(Tail(w)) = Len(a) /\ \A i \in 1..Len(a) : i + 1 \in 1..Len(q)
  BY <1>1, <1>3, <1>5
<1>8. \A i \in 1..Len(a) : WritesOf(a)[i] = Tail(w)[i]
  <2> SUFFICES ASSUME NEW i \in 1..Len(a)
               PROVE  WritesOf(a)[i] = Tail(w)[i]
    OBVIOUS
  <2>1. Tail(w)[i] = w[i + 1]
    BY <1>5, <1>7
  <2>2. w[i + 1] = q[i + 1].write
    BY <1>1, <1>7
  <2> QED
    BY <2>1, <2>2, <1>3, <1>6
<1>9. WritesOf(a) = Tail(w)
  BY <1>1, <1>3, <1>5, <1>6, <1>8, SeqEqual
<1>10. Head(w) = Head(q).write
  BY <1>1, <1>2, <1>5
<1> QED
  BY <1>4, <1>9, <1>10 DEF w, a

\* WriteMutations is Issue of the log.
LEMMA IssuesIsIssue ==
    ASSUME Inv, LogInv, Issues
    PROVE  Log!Next
<1>1. PICK b \in Batch :
        /\ b.write = issued + 1 /\ issued' = issued + 1
        /\ mutationQueue' = [mutationQueue EXCEPT ![currentUser] = Append(@, b)]
        /\ UNCHANGED <<committed, rejected, toldOk, toldError>>
  BY DEF Issues
<1>2. currentUser \in Users /\ mutationQueue \in [Users -> Seq(Batch)]
  BY DEF Inv, TypeOK
<1>3. WritesOf(Append(mutationQueue[currentUser], b))
        = Append(WritesOf(mutationQueue[currentUser]), issued + 1)
  BY <1>1, <1>2, WritesOfAppend
<1>4. LogOf' = [LogOf EXCEPT ![currentUser] = Append(@, issued + 1)]
  <2>1. LogOf' = [u \in Users |-> WritesOf(mutationQueue'[u])]
    BY DEF LogOf, WritesOf
  <2>2. mutationQueue' = [u \in Users |-> IF u = currentUser
                              THEN Append(mutationQueue[currentUser], b) ELSE mutationQueue[u]]
    BY <1>1, <1>2
  <2> QED
    BY <2>1, <2>2, <1>2, <1>3 DEF LogOf
<1>5. ASSUME NEW u \in Users, u = currentUser
      PROVE  Log!Issue(u)
  BY <1>1, <1>4, <1>5 DEF Log!Issue, LogOf, WritesOf
<1> QED
  BY <1>2, <1>5 DEF Log!Next

\* What settling a write does to the log.
LEMMA LogOfTail ==
    ASSUME Inv, LogInv, writePipeline # <<>>
    PROVE  /\ currentUser \in Users
           /\ LogOf[currentUser] # <<>>
           /\ Head(LogOf[currentUser]) = Head(writePipeline).write
           /\ Writes(Found) \subseteq {Head(writePipeline).write}
           /\ Writes(Found) # {} => Head(writePipeline).write \notin toldOk \cup toldError
           /\ mutationQueue' = [mutationQueue EXCEPT ![currentUser] = Tail(@)] =>
                 LogOf' = [LogOf EXCEPT ![currentUser] = Tail(@)]
<1> DEFINE q == mutationQueue[currentUser]
           batch == Head(writePipeline)
<1>1. /\ currentUser \in Users /\ q \in Seq(Batch) /\ q # <<>> /\ Head(q) = batch
      /\ Writes(Found) \subseteq {batch.write}
      /\ Found # {} => batch \in mutationCallbacks[currentUser]
  BY HeadOfQueue
<1>2. /\ WritesOf(Tail(q)) = Tail(WritesOf(q))
      /\ WritesOf(q) # <<>> /\ Head(WritesOf(q)) = batch.write
  BY <1>1, WritesOfTail
<1>3. LogOf[currentUser] = WritesOf(q)
  BY <1>1 DEF LogOf
<1>4. Writes(Found) # {} => Found # {}
  BY DEF Writes
<1>5. Writes(Found) # {} => batch.write \notin toldOk \cup toldError
  BY <1>1, <1>4 DEF LogInv, CallbacksUntold
<1>6. ASSUME mutationQueue' = [mutationQueue EXCEPT ![currentUser] = Tail(@)]
      PROVE  LogOf' = [LogOf EXCEPT ![currentUser] = Tail(@)]
  <2>1. LogOf' = [u \in Users |-> WritesOf(mutationQueue'[u])]
    BY DEF LogOf, WritesOf
  <2>2. mutationQueue' = [u \in Users |-> IF u = currentUser THEN Tail(q) ELSE mutationQueue[u]]
    BY <1>6, <1>1 DEF Inv, TypeOK
  <2> HIDE DEF q
  <2> QED
    BY <2>1, <2>2, <1>1, <1>2, <1>3 DEF LogOf
<1> QED
  BY <1>1, <1>2, <1>3, <1>5, <1>6

\* OnWriteStreamMutationResult and HandleWriteError are Settle of the log.
LEMMA SettlesIsSettle ==
    ASSUME Inv, LogInv, Settles, ~ LossyFinish
    PROVE  Log!Next
<1> DEFINE w == Head(writePipeline).write
<1>1. /\ writePipeline # <<>>
      /\ \/ /\ w \in committed
            /\ toldOk' = toldOk \cup Writes(Found) /\ toldError' = toldError
         \/ /\ w \in rejected
            /\ toldOk' = toldOk /\ toldError' = toldError \cup Writes(Found)
      /\ mutationQueue' = [mutationQueue EXCEPT ![currentUser] = Tail(@)]
      /\ UNCHANGED <<committed, rejected, issued>>
  BY DEF Settles
<1>2. /\ currentUser \in Users
      /\ LogOf[currentUser] # <<>> /\ Head(LogOf[currentUser]) = w
      /\ Writes(Found) = {} \/ Writes(Found) = {w}
      /\ Writes(Found) # {} => w \notin toldOk \cup toldError
      /\ LogOf' = [LogOf EXCEPT ![currentUser] = Tail(@)]
  BY <1>1, LogOfTail
<1> HIDE DEF w
<1>3. \/ w \in committed \ toldError /\ toldOk' = toldOk \cup {w} /\ UNCHANGED toldError
      \/ w \in rejected \ toldOk /\ toldError' = toldError \cup {w} /\ UNCHANGED toldOk
      \/ UNCHANGED <<toldOk, toldError>>
  <2>1. CASE Writes(Found) = {}
    BY <2>1, <1>1
  <2>2. CASE Writes(Found) = {w}
    BY <2>2, <1>1, <1>2
  <2> QED
    BY <1>2, <2>1, <2>2
<1>4. w \in committed \cup rejected
  BY <1>1
<1>5. ASSUME NEW u \in Users, u = currentUser
      PROVE  Log!Settle(u)
  BY <1>1, <1>2, <1>3, <1>4, <1>5
     DEF Log!Settle, Log!TellOk, Log!TellError, Log!Decided, LogOf, WritesOf
<1> QED
  BY <1>2, <1>5 DEF Log!Next

\* CrashAfterNotify is TellAndKeep of the log, or nothing if nobody waited.
LEMMA DiesTellingIsTell ==
    ASSUME Inv, LogInv, DiesTelling
    PROVE  Log!Next \/ UNCHANGED Log!logVars
<1> DEFINE w == Head(writePipeline).write
<1>1. /\ writePipeline # <<>> /\ w \in committed
      /\ toldOk' = toldOk \cup Writes(Found)
      /\ UNCHANGED <<mutationQueue, toldError, committed, rejected, issued>>
  BY DEF DiesTelling
<1>2. /\ currentUser \in Users
      /\ LogOf[currentUser] # <<>> /\ Head(LogOf[currentUser]) = w
      /\ Writes(Found) = {} \/ Writes(Found) = {w}
      /\ Writes(Found) # {} => w \notin toldOk \cup toldError
  BY <1>1, LogOfTail
<1>3. LogOf' = LogOf
  BY <1>1 DEF LogOf, WritesOf
<1> HIDE DEF w
<1>4. CASE Writes(Found) = {}
  BY <1>1, <1>3, <1>4 DEF Log!logVars, LogOf, WritesOf
<1>5. CASE Writes(Found) = {w}
  <2>1. Log!TellAndKeep(currentUser)
    BY <1>1, <1>2, <1>3, <1>5 DEF Log!TellAndKeep, Log!TellOk, LogOf, WritesOf
  <2> QED
    BY <1>2, <2>1 DEF Log!Next
<1> QED
  BY <1>2, <1>4, <1>5

\* Commit, Reject and ServeAbandoned are Decide of the log: the write is decided again,
\* or everything before it in its user's log is decided.
LEMMA DecidesIsDecide ==
    ASSUME Inv, LogInv, NEW s \in abandoned \cup {requests}, Decides(s)
    PROVE  Log!Next
<1> DEFINE w == s[1].write
           u == s[1].user
           q == mutationQueue[u]
<1>1. /\ s[1] = Head(s) /\ s[1] \in Batch /\ w \in 1..issued
      /\ w \in Decided \/ s[1] \in ToSet(q)
      /\ \A c \in ToSet(q) : c.write < w => c.write \in Decided
  BY DecidesFirst
<1>2. /\ \/ committed' = committed \cup {w} /\ rejected' = rejected
         \/ rejected' = rejected \cup {w} /\ committed' = committed
      /\ UNCHANGED <<mutationQueue, toldOk, toldError, issued>>
  BY <1>1 DEF Decides
<1>3. LogOf' = LogOf
  BY <1>2 DEF LogOf, WritesOf
<1>4. u \in Users
  BY <1>1 DEF Batch
<1>5. /\ q \in Seq(Batch) /\ Len(q) \in Nat
      /\ \A b : b \in ToSet(q) <=> \E i \in 1..Len(q) : q[i] = b
  BY <1>4, QueueElements DEF Inv
<1>6. \A i, j \in 1..Len(q) : i < j => q[i].write < q[j].write
  BY <1>4 DEF LogInv, WritesGrow
<1>7. /\ LogOf[u] = WritesOf(q) /\ DOMAIN WritesOf(q) = 1..Len(q)
      /\ \A i \in 1..Len(q) : WritesOf(q)[i] = q[i].write
  <2>1. LogOf[u] = WritesOf(q)
    BY <1>4 DEF LogOf
  <2> QED
    BY <2>1, <1>5, WritesOfType
<1> HIDE DEF q, w, u
<1>8. w \in Decided \/ \E i \in DOMAIN LogOf[u] :
          LogOf[u][i] = w /\ \A j \in 1..(i - 1) : LogOf[u][j] \in Decided
  <2>1. CASE s[1] \in ToSet(q)
    <3>1. PICK i \in 1..Len(q) : q[i] = s[1]
      BY <2>1, <1>5
    <3>2. LogOf[u][i] = w /\ i \in DOMAIN LogOf[u]
      BY <3>1, <1>7 DEF w
    <3>3. ASSUME NEW j \in 1..(i - 1)
          PROVE  LogOf[u][j] \in Decided
      <4>1. j \in 1..Len(q) /\ j < i
        BY <1>5
      <4>2. q[j].write < w
        BY <4>1, <3>1, <1>6 DEF w
      <4>3. q[j] \in ToSet(q)
        BY <4>1, <1>5
      <4> QED
        BY <4>1, <4>2, <4>3, <1>1, <1>7
    <3> QED
      BY <3>2, <3>3
  <2> QED
    BY <1>1, <2>1
<1>9. Log!MayDecide(w)
  BY <1>4, <1>8 DEF Log!MayDecide, Log!Decided, Decided, LogOf, WritesOf
<1>10. Log!Decide(w)
  BY <1>2, <1>3, <1>9 DEF Log!Decide, LogOf, WritesOf
<1> QED
  BY <1>1, <1>10 DEF Log!Next

\* Every step of the write path is a step of the log or leaves it alone.
LEMMA StepImplementsLog ==
    ASSUME Inv, LogInv, [Next]_vars, ~ LossyFinish
    PROVE  Log!Next \/ UNCHANGED Log!logVars
<1>1. CASE Issues
  BY <1>1, IssuesIsIssue
<1>2. CASE Settles
  BY <1>2, SettlesIsSettle
<1>3. CASE DiesTelling
  BY <1>3, DiesTellingIsTell
<1>4. CASE \E s \in abandoned \cup {requests} : Decides(s)
  BY <1>4, DecidesIsDecide
<1>5. CASE Registers \/ Quiet
  <2>1. UNCHANGED <<mutationQueue, committed, rejected, toldOk, toldError, issued>>
    BY <1>5 DEF Registers, Quiet
  <2> QED
    BY <2>1 DEF Log!logVars
<1> QED
  BY <1>1, <1>2, <1>3, <1>4, <1>5, StepKinds

\* With no status overtaking a response, the write path implements WriteLog: an ordered,
\* durable, truthful log per user, whatever streams, users and processes do.
THEOREM ImplementsLogHolds ==
    ASSUME ~ LossyFinish
    PROVE  Spec => ImplementsLog
<1>1. Init => Log!Init
  BY DEF Init, Log!Init
<1>2. Inv /\ LogInv /\ [Next]_vars => [Log!Next]_(Log!logVars)
  BY StepImplementsLog
<1> QED
  BY <1>1, <1>2, InvHolds, LogInvHolds, PTL DEF Spec, ImplementsLog, Log!Spec

=============================================================================
