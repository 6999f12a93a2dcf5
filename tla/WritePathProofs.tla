--------------------------- MODULE WritePathProofs ---------------------------
(***************************************************************************)
(* Proofs about the write path, for every value of its constants.  The     *)
(* inductive invariant Inv of WritePath is shown to hold initially and to  *)
(* be preserved by each action; the properties follow from it.             *)
(*                                                                         *)
(* The heart of the argument is how three sequences stay in step: the      *)
(* pipeline is an initial segment of the current user's queue (so removing *)
(* or adding a batch and refilling keeps it one), and on a stream that has *)
(* shaken hands the unread responses followed by the requests still to be  *)
(* taken are the pipeline (so the head of the pipeline is what the next    *)
(* answer is about).                                                       *)
(***************************************************************************)
EXTENDS WritePath, SequenceTheorems, WellFoundedInduction, TLAPS

-----------------------------------------------------------------------------
(* Facts about numbers and sequences. *)

\* A non-empty set of naturals has a least element.
LEMMA LeastNatural ==
    ASSUME NEW T \in SUBSET Nat, T # {}
    PROVE  \E x \in T : \A y \in T : x <= y
<1> DEFINE R == OpToRel(<, Nat)
<1>1. IsWellFoundedOn(R, Nat)
  BY NatLessThanWellFounded
<1> HIDE DEF R
<1>2. PICK x \in T : \A y \in T : ~ (<<y, x>> \in R)
  BY <1>1, WFMin
<1>3. \A y \in T : ~ (y < x)
  BY <1>2 DEF R, OpToRel
<1> QED
  BY <1>3

\* Min picks the least of a non-empty set of naturals.
LEMMA MinOfNaturals ==
    ASSUME NEW T \in SUBSET Nat, T # {}
    PROVE  /\ Min(T) \in T
           /\ \A y \in T : Min(T) <= y
BY LeastNatural DEF Min

\* Max picks the greatest of a non-empty bounded set of naturals.
LEMMA MaxOfNaturals ==
    ASSUME NEW T \in SUBSET Nat, T # {}, NEW n \in Nat, \A y \in T : y <= n
    PROVE  /\ Max(T) \in T
           /\ \A y \in T : y <= Max(T)
<1> DEFINE D == {d \in Nat : \E y \in T : d = n - y}
<1>1. D \in SUBSET Nat /\ D # {}
  <2>1. PICK y \in T : TRUE
    OBVIOUS
  <2>2. n - y \in D
    BY <2>1
  <2> QED
    BY <2>2
<1> HIDE DEF D
<1>2. PICK d \in D : \A e \in D : d <= e
  BY <1>1, LeastNatural
<1>3. PICK x \in T : d = n - x
  BY <1>2 DEF D
<1>4. \A y \in T : y <= x
  BY <1>2, <1>3 DEF D
<1> QED
  BY <1>4 DEF Max

\* Removing position 1 of a sequence leaves its tail.
LEMMA RemoveHead ==
    ASSUME NEW S, NEW q \in Seq(S), q # <<>>
    PROVE  RemoveAt(q, 1) = Tail(q)
<1>1. RemoveAt(q, 1) = SubSeq(q, 1, 0) \o SubSeq(q, 2, Len(q))
  BY DEF RemoveAt
<1>2. SubSeq(q, 1, 0) = <<>>
  BY SubSeqEmpty
<1>3. SubSeq(q, 2, Len(q)) = Tail(q) /\ Tail(q) \in Seq(S)
  BY TailIsSubSeq, HeadTailProperties
<1>4. <<>> \o Tail(q) = Tail(q)
  BY <1>3, ConcatEmptySeq
<1> QED
  BY <1>1, <1>2, <1>3, <1>4

\* A non-empty sequence is its head followed by its tail.
LEMMA SplitHead ==
    ASSUME NEW S, NEW t \in Seq(S), t # <<>>
    PROVE  /\ t = <<Head(t)>> \o Tail(t)
           /\ Head(t) \in S /\ Tail(t) \in Seq(S) /\ <<Head(t)>> \in Seq(S)
<1>1. Len(t) \in Nat \ {0} /\ 1 \in 1..Len(t) /\ Len(t) \in 1..Len(t)
  BY EmptySeq
<1>2. SubSeq(t, 1, Len(t)) = <<t[1]>> \o SubSeq(t, 1 + 1, Len(t))
  BY <1>1, SubSeqRecursiveFirst
<1>3. SubSeq(t, 1, Len(t)) = t /\ SubSeq(t, 2, Len(t)) = Tail(t)
  BY SubSeqFull, TailIsSubSeq
<1>4. Head(t) = t[1] /\ Head(t) \in S /\ Tail(t) \in Seq(S)
  BY HeadTailProperties
<1> QED
  BY <1>2, <1>3, <1>4

\* Moving the head of one sequence to the end of the one before it changes nothing:
\* what Commit does to requests and responses.
LEMMA MoveHead ==
    ASSUME NEW S, NEW r \in Seq(S), NEW t \in Seq(S), t # <<>>
    PROVE  Append(r, Head(t)) \o Tail(t) = r \o t
<1>1. /\ t = <<Head(t)>> \o Tail(t)
      /\ Head(t) \in S /\ Tail(t) \in Seq(S) /\ <<Head(t)>> \in Seq(S)
  BY SplitHead
<1>2. Append(r, Head(t)) = r \o <<Head(t)>>
  BY <1>1, AppendIsConcat
<1>3. (r \o <<Head(t)>>) \o Tail(t) = r \o (<<Head(t)>> \o Tail(t))
  BY <1>1, ConcatAssociative
<1> QED
  BY <1>1, <1>2, <1>3, Zenon

\* Head and tail of a concatenation come from its first part when that is not empty:
\* what taking the head of the pipeline does to responses and requests.
LEMMA TailOfConcat ==
    ASSUME NEW S, NEW r \in Seq(S), NEW t \in Seq(S), r # <<>>
    PROVE  /\ r \o t # <<>>
           /\ Head(r \o t) = Head(r)
           /\ Tail(r \o t) = Tail(r) \o t
<1> DEFINE c == r \o t
<1>1. /\ r = <<Head(r)>> \o Tail(r)
      /\ Tail(r) \in Seq(S) /\ <<Head(r)>> \in Seq(S)
  BY SplitHead
<1>2. c \in Seq(S) /\ Tail(r) \o t \in Seq(S)
  BY <1>1, ConcatProperties
<1>3. c # <<>>
  BY ConcatEqualIffEmpty
<1>4. c[1] = r[1]
  <2>1. 1 <= Len(r) /\ 1 \in 1..(Len(r) + Len(t))
    BY EmptySeq
  <2> QED
    BY <2>1, ConcatProperties
<1>5. c = <<Head(r)>> \o (Tail(r) \o t)
  <2>1. (<<Head(r)>> \o Tail(r)) \o t = <<Head(r)>> \o (Tail(r) \o t)
    BY <1>1, ConcatAssociative
  <2> QED
    BY <2>1, <1>1
<1> HIDE DEF c
<1>6. c = <<Head(c)>> \o Tail(c) /\ Tail(c) \in Seq(S)
  BY <1>2, <1>3, SplitHead
<1>7. Head(c) = Head(r)
  BY <1>2, <1>3, <1>4
<1>8. Tail(c) = Tail(r) \o t
  BY <1>1, <1>2, <1>5, <1>6, <1>7, ConcatSimplifications
<1> QED
  BY <1>3, <1>7, <1>8 DEF c

\* The minimum of two naturals.
LEMMA MinOfPair ==
    ASSUME NEW m \in Nat, NEW n \in Nat
    PROVE  Min({m, n}) = IF m < n THEN m ELSE n
<1>1. Min({m, n}) \in {m, n} /\ \A y \in {m, n} : Min({m, n}) <= y
  BY MinOfNaturals
<1> QED
  BY <1>1

\* p is an initial segment of q.
Initial(p, q) == Len(p) <= Len(q) /\ \A i \in 1..Len(p) : p[i] = q[i]

\* The id FillWritePipeline starts after.
LastId(p) == IF p = <<>> THEN kBatchIdUnknown ELSE p[Len(p)].id

\* In an ascending queue, the first batch after an initial segment's last id is the
\* one just behind the segment: NextMutationBatchAfterBatchId skips and repeats nothing.
LEMMA NextAfterInitial ==
    ASSUME NEW p \in Seq(Batch), NEW q \in Seq(Batch), Ascending(q), Initial(p, q)
    PROVE  NextMutationBatchAfterBatchId(q, LastId(p)) = Len(p) + 1
<1> DEFINE T == {i \in 1..Len(q) : q[i].id > LastId(p)} \cup {Len(q) + 1}
<1>1. \A i \in 1..Len(q) : q[i] \in Batch /\ q[i].id \in Nat
  <2>1. \A i \in 1..Len(q) : q[i] \in Batch
    BY ElementOfSeq
  <2> QED
    BY <2>1 DEF Batch
<1>2. \A i \in 1..Len(q) : q[i].id > LastId(p) <=> i > Len(p)
  <2>1. CASE p = <<>>
    BY <2>1, <1>1 DEF LastId, kBatchIdUnknown
  <2>2. CASE p # <<>>
    <3>1. Len(p) \in 1..Len(q) /\ LastId(p) = q[Len(p)].id
      BY <2>2, EmptySeq DEF LastId, Initial
    <3> QED
      BY <3>1, <1>1 DEF Ascending
  <2> QED
    BY <2>1, <2>2
<1>3. T = (Len(p) + 1)..(Len(q) + 1)
  BY <1>2 DEF Initial
<1>4. T \in SUBSET Nat /\ Len(p) + 1 \in T /\ \A y \in T : Len(p) + 1 <= y
  BY <1>3 DEF Initial
<1> HIDE DEF T
<1>5. Min(T) = Len(p) + 1
  <2>1. Min(T) \in T /\ \A y \in T : Min(T) <= y
    BY <1>4, MinOfNaturals
  <2>2. Min(T) \in Nat
    BY <2>1, <1>4, Zenon
  <2>3. Min(T) <= Len(p) + 1 /\ Len(p) + 1 <= Min(T)
    BY <2>1, <1>4
  <2> QED
    BY <2>2, <2>3
<1> QED
  BY <1>5 DEF NextMutationBatchAfterBatchId, T

\* What the refill loop adds to an initial segment of an ascending queue.
LEMMA BatchesAdded ==
    ASSUME NEW p \in Seq(Batch), NEW q \in Seq(Batch), Ascending(q), Initial(p, q),
           Len(p) <= MaxPendingWrites
    PROVE  /\ BatchesToAdd(p, q) \in Seq(Batch)
           /\ p \o BatchesToAdd(p, q) = SubSeq(q, 1, Min({Len(q), MaxPendingWrites}))
           /\ p \o BatchesToAdd(p, q) \in Seq(Batch)
<1> DEFINE m == Min({Len(q), MaxPendingWrites})
<1>1. MaxPendingWrites \in Nat
  BY ConstantsAssumption
<1>2. m = IF Len(q) < MaxPendingWrites THEN Len(q) ELSE MaxPendingWrites
  BY <1>1, MinOfPair
<1>3. m \in Nat /\ Len(p) <= m /\ m <= Len(q)
  BY <1>1, <1>2 DEF Initial
<1> HIDE DEF m
<1>4. BatchesToAdd(p, q) = SubSeq(q, Len(p) + 1, m)
  <2>1. (Len(p) + 1) + (MaxPendingWrites - Len(p)) - 1 = MaxPendingWrites
    BY <1>1
  <2> QED
    BY <2>1, NextAfterInitial DEF BatchesToAdd, LastId, m
<1>5. p = SubSeq(q, 1, Len(p))
  <2>1. \A i \in 1..Len(p) : q[i] \in Batch
    BY ElementOfSeq DEF Initial
  <2>2. /\ SubSeq(q, 1, Len(p)) \in Seq(Batch)
        /\ Len(SubSeq(q, 1, Len(p))) = Len(p)
        /\ \A i \in 1..Len(p) : SubSeq(q, 1, Len(p))[i] = q[i]
    BY <2>1, SubSeqProperties
  <2> QED
    BY <2>2, SeqEqual DEF Initial
<1>6. SubSeq(q, 1, Len(p)) \o SubSeq(q, Len(p) + 1, m) = SubSeq(q, 1, m)
  <2>1. 1 \in 1..(Len(q) + 1) /\ Len(p) \in (1 - 1)..Len(q) /\ m \in Len(p)..Len(q)
    BY <1>3 DEF Initial
  <2> QED
    BY <2>1, ConcatAdjacentSubSeq
<1>7. BatchesToAdd(p, q) \in Seq(Batch)
  <2>1. \A i \in (Len(p) + 1)..m : q[i] \in Batch
    BY <1>3, ElementOfSeq
  <2> QED
    BY <2>1, <1>3, <1>4, SubSeqProperties
<1>8. p \o BatchesToAdd(p, q) = SubSeq(q, 1, m)
  BY <1>4, <1>5, <1>6
<1> QED
  BY <1>7, <1>8, ConcatProperties DEF m

\* What FillWritePipeline does with the network enabled: it extends an initial
\* segment of the queue to the longest one that fits, sends exactly what it added on
\* a stream that has shaken hands, and starts a stream when there is work.
LEMMA FillResult ==
    ASSUME NEW p \in Seq(Batch), NEW q \in Seq(Batch), NEW s \in StreamStates,
           NEW sent \in Seq(Batch), NEW idle,
           Ascending(q), Initial(p, q), Len(p) <= MaxPendingWrites,
           FillWritePipeline(TRUE, p, q, s, sent, idle)
    PROVE  /\ writePipeline' = SubSeq(q, 1, Min({Len(q), MaxPendingWrites}))
           /\ writePipeline' \in Seq(Batch)
           /\ requests' \in Seq(Batch)
           /\ idleTimer' \in BOOLEAN
           /\ streamState' \in StreamStates
           /\ writePipeline' # <<>> => IsStarted(streamState')
           /\ streamState' = "Open" <=> s = "Open"
           /\ \E added \in Seq(Batch) :
                /\ writePipeline' = p \o added
                /\ requests' = IF s = "Open" /\ handshake = "complete"
                               THEN sent \o added ELSE sent
                /\ idleTimer' => \/ writePipeline' = <<>> /\ s = "Open"
                                 \/ idle /\ ~ (s = "Open" /\ handshake = "complete" /\ added # <<>>)
<1> DEFINE added == BatchesToAdd(p, q)
<1>1. /\ added \in Seq(Batch)
      /\ p \o added = SubSeq(q, 1, Min({Len(q), MaxPendingWrites}))
      /\ p \o added \in Seq(Batch)
  BY BatchesAdded
<1>2. /\ writePipeline' = p \o added
      /\ requests' = IF s = "Open" /\ handshake = "complete" THEN sent \o added ELSE sent
      /\ idleTimer' = \/ p \o added = <<>> /\ s = "Open"
                      \/ idle /\ ~ (s = "Open" /\ handshake = "complete" /\ added # <<>>)
      /\ streamState' = IF p \o added # <<>> /\ ~ IsStarted(s) THEN Start(s) ELSE s
  BY Zenon DEF FillWritePipeline
<1> HIDE DEF added
<1>3. requests' \in Seq(Batch)
  BY <1>1, <1>2, ConcatProperties
<1>4. idleTimer' \in BOOLEAN
  BY <1>2
<1>5. /\ streamState' \in StreamStates
      /\ writePipeline' # <<>> => IsStarted(streamState')
      /\ streamState' = "Open" <=> s = "Open"
  BY <1>2 DEF StreamStates, IsStarted, Start
<1>6. \E a \in Seq(Batch) :
        /\ writePipeline' = p \o a
        /\ requests' = IF s = "Open" /\ handshake = "complete" THEN sent \o a ELSE sent
        /\ idleTimer' => \/ writePipeline' = <<>> /\ s = "Open"
                         \/ idle /\ ~ (s = "Open" /\ handshake = "complete" /\ a # <<>>)
  BY <1>1, <1>2, Zenon
<1> QED
  BY <1>1, <1>2, <1>3, <1>4, <1>5, <1>6, Zenon

-----------------------------------------------------------------------------
(* Steps that leave a half of the invariant alone. *)

\* A step that leaves the queues, the callbacks and the outcomes alone keeps the
\* first half; the backend only ever decides more.
LEMMA StoreFrame ==
    ASSUME StoreInv,
           UNCHANGED <<mutationQueue, nextBatchId, currentUser, mutationCallbacks,
                       toldOk, toldError, issued>>,
           committed \subseteq committed', rejected \subseteq rejected'
    PROVE  StoreInv'
<1> USE DEF StoreInv
<1>1. BatchIdsGrow' /\ IdsBounded' /\ CallbacksAreQueued'
  BY DEF BatchIdsGrow, IdsBounded, CallbacksAreQueued
<1>2. OkMeansCommitted' /\ ErrorsJustified'
  BY DEF OkMeansCommitted, ErrorsJustified, ErrorMeansRejected
<1>3. NothingLost'
  BY DEF NothingLost, Decided
<1> QED
  BY <1>1, <1>2, <1>3

\* A step that closes the stream and leaves queue and pipeline alone.
LEMMA CloseFrame ==
    ASSUME TypeOK, StreamInv, ResetStream, requests' = <<>>, idleTimer' = FALSE,
           UNCHANGED <<mutationQueue, currentUser, isNetworkEnabled, writePipeline>>,
           streamState' \in StreamStates \ {"Open"},
           IsStarted(streamState') => isNetworkEnabled,
           writePipeline # <<>> => IsStarted(streamState')
    PROVE  StreamInv'
<1> USE DEF StreamInv, ResetStream
<1>1. PipelineIsQueueHead'
  BY DEF PipelineIsQueueHead
<1>2. PendingMeansStarted' /\ ResponsesMatchPipeline'
  BY DEF PendingMeansStarted, ResponsesMatchPipeline
<1>3. StreamConsistent'
  BY DEF StreamConsistent
<1>4. AnswersJustified'
  BY DEF AnswersJustified
<1> QED
  BY <1>1, <1>2, <1>3, <1>4

\* Concatenation of sequences of batches is associative.
LEMMA ConcatBatches ==
    ASSUME NEW r \in Seq(Batch), NEW s \in Seq(Batch), NEW t \in Seq(Batch)
    PROVE  (r \o s) \o t = r \o (s \o t)
BY ConcatAssociative

\* The empty sequence is a sequence of batches.
LEMMA EmptyBatches == <<>> \in Seq(Batch)
BY EmptySeq

\* Abandoning the requests of a closed stream keeps the type of abandoned.
LEMMA AbandonType ==
    ASSUME TypeOK, AbandonRequests
    PROVE  abandoned' \in SUBSET (Seq(Batch) \ {<<>>})
BY DEF TypeOK, AbandonRequests

\* Counting a fault keeps the type of the counter.
LEMMA FaultType ==
    ASSUME TypeOK, Fault
    PROVE  faults' \in Nat
BY DEF TypeOK, Fault

\* ResumeStartWithCredentials preserves the invariant.
LEMMA ResumeStartKeepsInv ==
    ASSUME Inv, ResumeStartWithCredentials
    PROVE  Inv'
<1> USE DEF Inv, ResumeStartWithCredentials, engine, wire, backend
<1>1. TypeOK'
  BY DEF TypeOK, store, outcome, StreamStates
<1>2. StoreInv'
  BY StoreFrame DEF store, outcome
<1>3. StreamInv'
  BY DEF StreamInv, PipelineIsQueueHead, PendingMeansStarted, StreamConsistent,
         ResponsesMatchPipeline, AnswersJustified, IsStarted, store
<1> QED
  BY <1>1, <1>2, <1>3

\* BackoffElapsed preserves the invariant.
LEMMA BackoffElapsedKeepsInv ==
    ASSUME Inv, BackoffElapsed
    PROVE  Inv'
<1> USE DEF Inv, BackoffElapsed, engine, wire, backend
<1>1. TypeOK'
  BY DEF TypeOK, store, outcome, StreamStates
<1>2. StoreInv'
  BY StoreFrame DEF store, outcome
<1>3. StreamInv'
  BY DEF StreamInv, PipelineIsQueueHead, PendingMeansStarted, StreamConsistent,
         ResponsesMatchPipeline, AnswersJustified, IsStarted, store
<1> QED
  BY <1>1, <1>2, <1>3

\* OnWriteStreamHandshakeComplete preserves the invariant: the whole pipeline goes
\* on a stream that carries nothing yet.
LEMMA HandshakeCompleteKeepsInv ==
    ASSUME Inv, OnWriteStreamHandshakeComplete
    PROVE  Inv'
<1> USE DEF Inv, OnWriteStreamHandshakeComplete, engine, backend
<1>1. requests = <<>> /\ responses = <<>> /\ requests' = writePipeline
      /\ <<>> \o writePipeline = writePipeline /\ writePipeline \in Seq(Batch)
  BY ConcatEmptySeq DEF StreamInv, StreamConsistent, TypeOK
<1>2. TypeOK'
  BY <1>1 DEF TypeOK, store, outcome
<1>3. StoreInv'
  BY StoreFrame DEF store, outcome
<1>4. StreamInv'
  BY <1>1 DEF StreamInv, PipelineIsQueueHead, PendingMeansStarted, StreamConsistent,
         ResponsesMatchPipeline, AnswersJustified, store
<1> QED
  BY <1>2, <1>3, <1>4

\* RegisterPendingWritesCallback preserves the invariant.
LEMMA RegisterKeepsInv ==
    ASSUME Inv, RegisterPendingWritesCallback
    PROVE  Inv'
<1> USE DEF Inv, RegisterPendingWritesCallback, backend
<1> DEFINE queue == mutationQueue[currentUser]
           waiter == [id |-> queue[Len(queue)].id, writes |-> Writes(ToSet(queue))]
<1>1. waiter \in [id : Nat, writes : SUBSET Nat]
  <2>1. queue \in Seq(Batch) /\ queue # <<>>
    BY DEF TypeOK
  <2>2. \A i \in 1..Len(queue) : queue[i] \in Batch
    BY <2>1, ElementOfSeq
  <2>3. queue[Len(queue)].id \in Nat
    BY <2>1, <2>2, EmptySeq DEF Batch
  <2>4. Writes(ToSet(queue)) \in SUBSET Nat
    BY <2>1, <2>2, LenProperties DEF Writes, ToSet, Batch
  <2> QED
    BY <2>3, <2>4
<1>2. TypeOK'
  BY <1>1 DEF TypeOK, store, outcome, stream, wire
<1>3. StoreInv'
  BY StoreFrame DEF store, outcome
<1>4. StreamInv'
  BY DEF StreamInv, PipelineIsQueueHead, PendingMeansStarted, StreamConsistent,
         ResponsesMatchPipeline, AnswersJustified, store, stream, wire
<1> QED
  BY <1>2, <1>3, <1>4

\* IdleTimeout preserves the invariant: the pipeline is empty when it fires.
LEMMA IdleTimeoutKeepsInv ==
    ASSUME Inv, IdleTimeout
    PROVE  Inv'
<1> USE DEF Inv, IdleTimeout, engine, backend
<1>1. TypeOK'
  <2>1. abandoned' \in SUBSET (Seq(Batch) \ {<<>>})
    BY AbandonType DEF ResetStream
  <2> QED
    BY <2>1, EmptyBatches DEF TypeOK, ResetStream, store, outcome, StreamStates
<1>2. StoreInv'
  BY StoreFrame DEF store, outcome
<1>3. StreamInv'
  <2>1. writePipeline = <<>> /\ ~ IsStarted("Initial")
    BY DEF StreamInv, StreamConsistent, IsStarted
  <2> QED
    BY <2>1, CloseFrame DEF store, StreamStates
<1> QED
  BY <1>1, <1>2, <1>3

\* CloseAndRetry preserves the invariant from any started stream.
LEMMA CloseAndRetryKeepsInv ==
    ASSUME Inv, CloseAndRetry, IsStarted(streamState), faults' \in Nat
    PROVE  Inv'
<1> USE DEF Inv, CloseAndRetry, engine, backend
<1>1. TypeOK'
  <2>1. abandoned' \in SUBSET (Seq(Batch) \ {<<>>})
    BY AbandonType DEF ResetStream
  <2> QED
    BY <2>1, EmptyBatches DEF TypeOK, ResetStream, store, outcome, StreamStates, Start
<1>2. StoreInv'
  BY StoreFrame DEF store, outcome
<1>3. StreamInv'
  <2>1. isNetworkEnabled
    BY DEF StreamInv, StreamConsistent
  <2>2. streamState' = IF writePipeline # <<>> THEN "Backoff" ELSE "Error"
    BY <2>1 DEF Start
  <2>3. /\ streamState' \in StreamStates \ {"Open"}
        /\ writePipeline # <<>> => IsStarted(streamState')
    BY <2>2 DEF StreamStates, IsStarted
  <2> QED
    BY <2>1, <2>3, CloseFrame DEF store
<1> QED
  BY <1>1, <1>2, <1>3

-----------------------------------------------------------------------------
(* The backend's steps. *)

\* AnswerHandshake preserves the invariant.
LEMMA AnswerHandshakeKeepsInv ==
    ASSUME Inv, AnswerHandshake
    PROVE  Inv'
<1> USE DEF Inv, AnswerHandshake, engine, wire, backend
<1>1. TypeOK'
  BY DEF TypeOK, store, outcome
<1>2. StoreInv'
  BY StoreFrame DEF store, outcome
<1>3. StreamInv'
  BY DEF StreamInv, PipelineIsQueueHead, PendingMeansStarted, StreamConsistent,
         ResponsesMatchPipeline, AnswersJustified, store
<1> QED
  BY <1>1, <1>2, <1>3

\* RefuseHandshake preserves the invariant.
LEMMA RefuseHandshakeKeepsInv ==
    ASSUME Inv, RefuseHandshake
    PROVE  Inv'
<1> USE DEF Inv, RefuseHandshake, Fault, engine, stream, backend
<1>1. TypeOK'
  BY DEF TypeOK, store, outcome, Statuses
<1>2. StoreInv'
  BY StoreFrame DEF store, outcome
<1>3. StreamInv'
  BY DEF StreamInv, PipelineIsQueueHead, PendingMeansStarted, StreamConsistent,
         ResponsesMatchPipeline, AnswersJustified, store
<1> QED
  BY <1>1, <1>2, <1>3

\* Commit preserves the invariant: the request becomes the last unread response.
LEMMA CommitKeepsInv ==
    ASSUME Inv, Commit
    PROVE  Inv'
<1> USE DEF Inv, Commit, engine, stream
<1>1. /\ requests \in Seq(Batch) /\ requests # <<>> /\ responses \in Seq(Batch)
      /\ Head(requests) \in Batch /\ Tail(requests) \in Seq(Batch)
  BY SplitHead DEF TypeOK
<1>2. /\ responses' \in Seq(Batch) /\ Len(responses') = Len(responses) + 1
      /\ \A i \in 1..Len(responses) : responses'[i] = responses[i]
      /\ responses'[Len(responses) + 1] = Head(requests)
  BY <1>1, AppendProperties
<1>3. Head(requests).write \in Nat
  BY <1>1 DEF Batch
<1>4. TypeOK'
  BY <1>1, <1>2, <1>3 DEF TypeOK, store, outcome
<1>5. StoreInv'
  BY StoreFrame DEF store, outcome
<1>6. StreamInv'
  <2>1. handshake = "complete"
    BY <1>1 DEF StreamInv, StreamConsistent
  <2>2. responses' \o requests' = responses \o requests
    BY <1>1, MoveHead
  <2>3. ResponsesMatchPipeline'
    BY <2>1, <2>2 DEF StreamInv, ResponsesMatchPipeline
  <2>4. AnswersJustified'
    <3>1. ASSUME NEW i \in 1..Len(responses')
          PROVE  responses'[i].write \in committed'
      <4>1. CASE i = Len(responses) + 1
        BY <4>1, <1>2
      <4>2. CASE i \in 1..Len(responses)
        BY <4>2, <1>2 DEF StreamInv, AnswersJustified
      <4> QED
        BY <4>1, <4>2, <1>1, <1>2
    <3> QED
      BY <3>1 DEF AnswersJustified
  <2>5. PipelineIsQueueHead' /\ PendingMeansStarted'
    BY DEF StreamInv, PipelineIsQueueHead, PendingMeansStarted, store
  <2>6. StreamConsistent'
    BY <2>1 DEF StreamInv, StreamConsistent
  <2> QED
    BY <2>3, <2>4, <2>5, <2>6 DEF StreamInv
<1> QED
  BY <1>4, <1>5, <1>6

\* Reject preserves the invariant: the status is about the next request.
LEMMA RejectKeepsInv ==
    ASSUME Inv, Reject
    PROVE  Inv'
<1> USE DEF Inv, Reject, engine, stream
<1>1. Head(requests) \in Batch
  BY SplitHead DEF TypeOK
<1>2. Head(requests).write \in Nat
  BY <1>1 DEF Batch
<1>3. TypeOK'
  BY <1>2 DEF TypeOK, store, outcome, Statuses
<1>4. StoreInv'
  BY StoreFrame DEF store, outcome
<1>5. StreamInv'
  BY DEF StreamInv, PipelineIsQueueHead, PendingMeansStarted, StreamConsistent,
         ResponsesMatchPipeline, AnswersJustified, store
<1> QED
  BY <1>3, <1>4, <1>5

\* ServeAbandoned preserves the invariant: it only decides more writes.
LEMMA ServeAbandonedKeepsInv ==
    ASSUME Inv, NEW left \in abandoned, ServeAbandoned(left)
    PROVE  Inv'
<1> USE DEF Inv, ServeAbandoned, engine, stream
<1>1. Head(left) \in Batch /\ Tail(left) \in Seq(Batch)
  BY SplitHead DEF TypeOK
<1>2. Head(left).write \in Nat
  BY <1>1 DEF Batch
<1>3. TypeOK'
  <2>1. committed' \in SUBSET Nat /\ rejected' \in SUBSET Nat
    BY <1>2 DEF TypeOK
  <2>2. abandoned' \in SUBSET (Seq(Batch) \ {<<>>})
    BY <1>1 DEF TypeOK
  <2> QED
    BY <2>1, <2>2 DEF TypeOK, store, outcome
<1>4. committed \subseteq committed' /\ rejected \subseteq rejected'
  OBVIOUS
<1>5. StoreInv'
  BY <1>4, StoreFrame DEF store, outcome
<1>6. StreamInv'
  BY <1>4 DEF StreamInv, PipelineIsQueueHead, PendingMeansStarted, StreamConsistent,
         ResponsesMatchPipeline, AnswersJustified, store
<1> QED
  BY <1>3, <1>5, <1>6

-----------------------------------------------------------------------------
(* The network switch, credentials and the process. *)

\* The next id is above every id in any user's queue, and no larger than it must be.
LEMMA NextBatchIdLoaded ==
    ASSUME TypeOK, IdsBounded
    PROVE  /\ LoadNextBatchId(mutationQueue) \in Nat \ {0}
           /\ LoadNextBatchId(mutationQueue) <= issued + 1
           /\ \A u \in Users : \A i \in 1..Len(mutationQueue[u]) :
                 mutationQueue[u][i].id < LoadNextBatchId(mutationQueue)
<1> DEFINE ids == {b.id : b \in UNION {ToSet(mutationQueue[u]) : u \in Users}}
           T   == {0} \cup ids
<1>1. \A u \in Users : mutationQueue[u] \in Seq(Batch)
  BY DEF TypeOK
<1>2. \A u \in Users : \A i \in 1..Len(mutationQueue[u]) :
         mutationQueue[u][i] \in Batch /\ mutationQueue[u][i].id \in Nat
  <2>1. \A u \in Users : \A i \in 1..Len(mutationQueue[u]) : mutationQueue[u][i] \in Batch
    BY <1>1, ElementOfSeq
  <2> QED
    BY <2>1 DEF Batch
<1>3. \A u \in Users : DOMAIN mutationQueue[u] = 1..Len(mutationQueue[u])
  BY <1>1, LenProperties
<1>4. \A u \in Users : \A i \in 1..Len(mutationQueue[u]) : mutationQueue[u][i].id \in ids
  BY <1>3 DEF ToSet
<1>5. \A n \in ids : \E u \in Users : \E i \in 1..Len(mutationQueue[u]) :
         n = mutationQueue[u][i].id
  BY <1>3 DEF ToSet
<1> HIDE DEF ids
<1>6. T \in SUBSET Nat /\ T # {} /\ issued \in Nat /\ \A n \in T : n <= issued
  <2>1. issued \in Nat
    BY DEF TypeOK
  <2>2. \A n \in ids : n \in Nat /\ n <= issued
    BY <1>2, <1>5 DEF IdsBounded
  <2> QED
    BY <2>1, <2>2
<1>7. Max(T) \in T /\ \A n \in T : n <= Max(T)
  BY <1>6, MaxOfNaturals
<1>8. LoadNextBatchId(mutationQueue) = 1 + Max(T)
  BY DEF LoadNextBatchId, ids
<1> HIDE DEF T
<1>9. Max(T) \in Nat /\ Max(T) <= issued
  BY <1>6, <1>7
<1>10. \A u \in Users : \A i \in 1..Len(mutationQueue[u]) :
          mutationQueue[u][i].id <= Max(T)
  BY <1>4, <1>7 DEF T
<1> QED
  BY <1>2, <1>6, <1>8, <1>9, <1>10

\* What a restarted network leaves of the pipeline and the stream.
Restarted ==
    /\ writePipeline' \in Seq(Batch)
    /\ streamState' \in StreamStates
    /\ isNetworkEnabled' = TRUE
    /\ handshake' = "none"
    /\ serverStatus' = "none"
    /\ idleTimer' = FALSE
    /\ requests' = <<>>
    /\ responses' = <<>>
    /\ abandoned' \in SUBSET (Seq(Batch) \ {<<>>})

\* Tearing the stream down and refilling from a queue that the pipeline p is an
\* initial segment of re-establishes the second half of the invariant.
LEMMA FillClosedStream ==
    ASSUME TypeOK, NEW p \in Seq(Batch), NEW q \in Seq(Batch),
           Ascending(q), Initial(p, q), Len(p) <= MaxPendingWrites,
           FillWritePipeline(TRUE, p, q, "Initial", <<>>, FALSE), ResetStream,
           isNetworkEnabled' = TRUE, mutationQueue'[currentUser'] = q
    PROVE  StreamInv' /\ Restarted
<1>1. <<>> \in Seq(Batch) /\ "Initial" \in StreamStates
  BY EmptyBatches DEF StreamStates
<1>2. /\ writePipeline' = SubSeq(q, 1, Min({Len(q), MaxPendingWrites}))
      /\ writePipeline' \in Seq(Batch)
      /\ requests' = <<>>
      /\ idleTimer' = FALSE
      /\ streamState' \in StreamStates \ {"Open"}
      /\ writePipeline' # <<>> => IsStarted(streamState')
  <2>1. /\ writePipeline' = SubSeq(q, 1, Min({Len(q), MaxPendingWrites}))
        /\ writePipeline' \in Seq(Batch)
        /\ idleTimer' \in BOOLEAN
        /\ streamState' \in StreamStates
        /\ writePipeline' # <<>> => IsStarted(streamState')
        /\ streamState' = "Open" <=> "Initial" = "Open"
    BY <1>1, FillResult
  <2>2. requests' = <<>> /\ idleTimer' = FALSE
    BY DEF FillWritePipeline
  <2> QED
    BY <2>1, <2>2
<1>3. /\ handshake' = "none" /\ responses' = <<>> /\ serverStatus' = "none"
      /\ abandoned' \in SUBSET (Seq(Batch) \ {<<>>})
  BY AbandonType DEF ResetStream
<1>4. PipelineIsQueueHead'
  BY <1>2 DEF PipelineIsQueueHead
<1>5. PendingMeansStarted' /\ ResponsesMatchPipeline' /\ StreamConsistent'
  BY <1>2, <1>3 DEF PendingMeansStarted, ResponsesMatchPipeline, StreamConsistent
<1>6. AnswersJustified'
  BY <1>3 DEF AnswersJustified
<1> QED
  BY <1>2, <1>3, <1>4, <1>5, <1>6 DEF StreamInv, Restarted

\* RestartNetwork re-establishes the second half of the invariant for a user.
LEMMA RestartNetworkResult ==
    ASSUME Inv, NEW user \in Users, RestartNetwork(user),
           mutationQueue' = mutationQueue, currentUser' = user
    PROVE  StreamInv' /\ Restarted
<1> DEFINE q == mutationQueue[user]
<1>1. TypeOK /\ q \in Seq(Batch) /\ Ascending(q)
  BY DEF Inv, TypeOK, StoreInv, BatchIdsGrow
<1>2. <<>> \in Seq(Batch) /\ Initial(<<>>, q) /\ Len(<<>>) <= MaxPendingWrites
  BY <1>1, EmptySeq, ConstantsAssumption DEF Initial
<1>3. /\ FillWritePipeline(TRUE, <<>>, q, "Initial", <<>>, FALSE)
      /\ ResetStream /\ isNetworkEnabled' = TRUE /\ mutationQueue'[currentUser'] = q
  BY DEF RestartNetwork
<1> HIDE DEF q
<1> QED
  BY <1>1, <1>2, <1>3, FillClosedStream

\* ConnectivityChange preserves the invariant.
LEMMA ConnectivityChangeKeepsInv ==
    ASSUME Inv, ConnectivityChange
    PROVE  Inv'
<1> USE DEF Inv, ConnectivityChange, engine, backend
<1>1. currentUser \in Users /\ mutationQueue' = mutationQueue /\ currentUser' = currentUser
  BY DEF TypeOK, store
<1>2. StreamInv' /\ Restarted
  BY <1>1, RestartNetworkResult
<1>3. TypeOK'
  BY <1>2, EmptyBatches, FaultType DEF TypeOK, Restarted, store, outcome
<1>4. StoreInv'
  BY StoreFrame DEF store, outcome
<1> QED
  BY <1>2, <1>3, <1>4

\* HandleCredentialChange preserves the invariant, with the network on or off.
LEMMA HandleCredentialChangeKeepsInv ==
    ASSUME Inv, NEW user \in Users, HandleCredentialChange(user)
    PROVE  Inv'
<1> USE DEF Inv, HandleCredentialChange, HandleUserChange, backend
<1>1. BatchIdsGrow' /\ IdsBounded' /\ nextBatchId' \in Nat \ {0}
  <2>1. CASE user = currentUser
    BY <2>1 DEF StoreInv, BatchIdsGrow, IdsBounded, TypeOK
  <2>2. CASE user # currentUser
    <3>1. nextBatchId' = LoadNextBatchId(mutationQueue)
      BY <2>2
    <3> QED
      BY <3>1, NextBatchIdLoaded DEF StoreInv, BatchIdsGrow, IdsBounded
  <2> QED
    BY <2>1, <2>2
<1>2. StoreInv'
  BY <1>1 DEF StoreInv, CallbacksAreQueued, OkMeansCommitted, ErrorsJustified,
              ErrorMeansRejected, NothingLost, Decided, outcome
<1>3. CASE isNetworkEnabled
  <2>1. StreamInv' /\ Restarted
    BY <1>3, RestartNetworkResult
  <2>2. TypeOK'
    BY <1>1, <1>3, <2>1, EmptyBatches, FaultType DEF TypeOK, Restarted, outcome
  <2> QED
    BY <1>2, <2>1, <2>2
<1>4. CASE ~ isNetworkEnabled
  <2>1. TypeOK'
    BY <1>1, <1>4, FaultType DEF TypeOK, outcome, stream, wire
  <2>2. SubSeq(mutationQueue[user], 1, 0) = <<>>
        /\ SubSeq(mutationQueue[currentUser], 1, 0) = <<>>
    BY SubSeqEmpty
  <2>3. PipelineIsQueueHead'
    BY <1>4, <2>2 DEF StreamInv, PipelineIsQueueHead
  <2>4. StreamInv'
    BY <1>4, <2>3 DEF StreamInv, PendingMeansStarted, StreamConsistent,
       ResponsesMatchPipeline, AnswersJustified, stream, wire
  <2> QED
    BY <1>2, <2>1, <2>4
<1> QED
  BY <1>3, <1>4

\* A restart of the process preserves the invariant whatever it told before it died,
\* as long as that was true.
LEMMA RestartKeepsInv ==
    ASSUME Inv, NEW user \in Users, Restart(user), toldOk' \in SUBSET Nat,
           OkMeansCommitted', UNCHANGED toldError
    PROVE  Inv'
<1> USE DEF Inv, Restart, backend
<1>1. StreamInv' /\ Restarted
  BY RestartNetworkResult
<1>2. /\ nextBatchId' \in Nat \ {0}
      /\ BatchIdsGrow' /\ IdsBounded'
  BY NextBatchIdLoaded DEF StoreInv, BatchIdsGrow, IdsBounded
<1>3. TypeOK'
  BY <1>1, <1>2, EmptyBatches, FaultType DEF TypeOK, Restarted
<1>4. StoreInv'
  BY <1>2 DEF StoreInv, CallbacksAreQueued, ErrorsJustified, ErrorMeansRejected,
              NothingLost, Decided
<1> QED
  BY <1>1, <1>3, <1>4

\* Crash preserves the invariant.
LEMMA CrashKeepsInv ==
    ASSUME Inv, NEW user \in Users, Crash(user)
    PROVE  Inv'
<1>1. Restart(user) /\ UNCHANGED toldError
  BY DEF Crash, outcome
<1>2. toldOk' \in SUBSET Nat /\ OkMeansCommitted'
  BY DEF Crash, Restart, outcome, backend, Inv, TypeOK, StoreInv, OkMeansCommitted
<1> QED
  BY <1>1, <1>2, RestartKeepsInv

\* DisableNetwork preserves the invariant.
LEMMA DisableNetworkKeepsInv ==
    ASSUME Inv, DisableNetwork
    PROVE  Inv'
<1> USE DEF Inv, DisableNetwork, ResetStream, engine, backend
<1>1. abandoned' \in SUBSET (Seq(Batch) \ {<<>>})
  BY AbandonType
<1>2. TypeOK'
  BY <1>1, EmptyBatches, FaultType DEF TypeOK, store, outcome, StreamStates
<1>3. StoreInv'
  BY StoreFrame DEF store, outcome
<1>4. SubSeq(mutationQueue[currentUser], 1, 0) = <<>>
  BY SubSeqEmpty
<1>5. PipelineIsQueueHead'
  BY <1>4 DEF PipelineIsQueueHead, store
<1>6. StreamConsistent'
  BY DEF StreamInv, StreamConsistent, TypeOK, StreamStates, IsStarted
<1>7. PendingMeansStarted' /\ ResponsesMatchPipeline' /\ AnswersJustified'
  BY DEF PendingMeansStarted, ResponsesMatchPipeline, AnswersJustified
<1> QED
  BY <1>2, <1>3, <1>5, <1>6, <1>7 DEF StreamInv

\* EnableNetwork preserves the invariant.
LEMMA EnableNetworkKeepsInv ==
    ASSUME Inv, EnableNetwork
    PROVE  Inv'
<1> USE DEF Inv, EnableNetwork, engine, backend
<1> DEFINE q == mutationQueue[currentUser]
<1>1. q \in Seq(Batch) /\ Ascending(q)
  BY DEF TypeOK, StoreInv, BatchIdsGrow
<1>2. writePipeline = <<>>
  <2>1. SubSeq(q, 1, 0) = <<>>
    BY SubSeqEmpty
  <2> QED
    BY <2>1 DEF StreamInv, PipelineIsQueueHead
<1>3. /\ streamState \in StreamStates \ {"Open"} /\ handshake = "none"
      /\ requests = <<>> /\ responses = <<>> /\ idleTimer = FALSE /\ serverStatus = "none"
  BY DEF StreamInv, StreamConsistent, IsStarted, TypeOK
<1>4. <<>> \in Seq(Batch) /\ Initial(<<>>, q) /\ Len(<<>>) <= MaxPendingWrites
  BY <1>1, EmptySeq, ConstantsAssumption DEF Initial
<1>5. FillWritePipeline(TRUE, <<>>, q, streamState, <<>>, FALSE)
  BY <1>2, <1>3
<1> HIDE DEF q
<1>6. /\ writePipeline' = SubSeq(q, 1, Min({Len(q), MaxPendingWrites}))
      /\ writePipeline' \in Seq(Batch)
      /\ requests' = <<>>
      /\ idleTimer' = FALSE
      /\ streamState' \in StreamStates \ {"Open"}
      /\ writePipeline' # <<>> => IsStarted(streamState')
  BY <1>1, <1>3, <1>4, <1>5, FillResult
<1>7. TypeOK'
  BY <1>6, EmptyBatches DEF TypeOK, store, outcome
<1>8. StoreInv'
  BY StoreFrame DEF store, outcome
<1>9. PipelineIsQueueHead'
  BY <1>6 DEF PipelineIsQueueHead, q, store
<1>10. PendingMeansStarted' /\ ResponsesMatchPipeline' /\ StreamConsistent'
  BY <1>3, <1>6 DEF PendingMeansStarted, ResponsesMatchPipeline, StreamConsistent
<1>11. AnswersJustified'
  BY <1>3 DEF AnswersJustified
<1> QED
  BY <1>7, <1>8, <1>9, <1>10, <1>11 DEF StreamInv

-----------------------------------------------------------------------------
(* The steps that refill the pipeline of a live stream. *)

\* Refilling from a queue that the pipeline p is an initial segment of, with the
\* stream as it is, establishes the second half of the invariant.
LEMMA FillLiveStream ==
    ASSUME TypeOK, StreamConsistent, AnswersJustified,
           NEW p \in Seq(Batch), NEW q \in Seq(Batch),
           Ascending(q), Initial(p, q), Len(p) <= MaxPendingWrites,
           FillWritePipeline(TRUE, p, q, streamState, requests, idleTimer),
           UNCHANGED <<handshake, serverStatus, isNetworkEnabled, committed, rejected>>,
           isNetworkEnabled, mutationQueue'[currentUser'] = q,
           responses' \in Seq(Batch),
           \A i \in 1..Len(responses') : responses'[i].write \in committed,
           IF handshake = "complete" THEN responses' \o requests = p ELSE responses' = <<>>,
           handshake = "complete" \/ q # <<>>,
           p = <<>> \/ idleTimer = FALSE
    PROVE  /\ StreamInv'
           /\ writePipeline' \in Seq(Batch) /\ requests' \in Seq(Batch)
           /\ idleTimer' \in BOOLEAN /\ streamState' \in StreamStates
<1>1. /\ requests \in Seq(Batch) /\ idleTimer \in BOOLEAN
      /\ streamState \in StreamStates
  BY DEF TypeOK
<1>2. /\ writePipeline' = SubSeq(q, 1, Min({Len(q), MaxPendingWrites}))
      /\ writePipeline' \in Seq(Batch)
      /\ requests' \in Seq(Batch)
      /\ idleTimer' \in BOOLEAN
      /\ streamState' \in StreamStates
      /\ writePipeline' # <<>> => IsStarted(streamState')
      /\ streamState' = "Open" <=> streamState = "Open"
  BY <1>1, FillResult
<1>3. PICK added \in Seq(Batch) :
        /\ writePipeline' = p \o added
        /\ requests' = IF streamState = "Open" /\ handshake = "complete"
                       THEN requests \o added ELSE requests
        /\ idleTimer' => \/ writePipeline' = <<>> /\ streamState = "Open"
                         \/ idleTimer /\ ~ (/\ streamState = "Open"
                                            /\ handshake = "complete"
                                            /\ added # <<>>)
  <2>1. \E a \in Seq(Batch) :
        /\ writePipeline' = p \o a
        /\ requests' = IF streamState = "Open" /\ handshake = "complete"
                       THEN requests \o a ELSE requests
        /\ idleTimer' => \/ writePipeline' = <<>> /\ streamState = "Open"
                         \/ idleTimer /\ ~ (streamState = "Open" /\ handshake = "complete" /\ a # <<>>)
    BY <1>1, FillResult
  <2> QED
    BY <2>1, Zenon
<1>4. handshake = "complete" => streamState = "Open"
  BY DEF StreamConsistent
<1>5. PipelineIsQueueHead'
  BY <1>2 DEF PipelineIsQueueHead
<1>6. PendingMeansStarted'
  BY <1>2 DEF PendingMeansStarted
<1>7. ResponsesMatchPipeline'
  <2>1. SUFFICES ASSUME handshake = "complete"
                 PROVE  responses' \o requests' = writePipeline'
    BY DEF ResponsesMatchPipeline
  <2>2. requests' = requests \o added /\ responses' \o requests = p
    BY <2>1, <1>3, <1>4
  <2>3. (responses' \o requests) \o added = responses' \o (requests \o added)
    BY <1>1, ConcatBatches, Zenon
  <2> QED
    <3>1. writePipeline' = p \o added
      BY <1>3
    <3>2. responses' \o requests' = responses' \o (requests \o added)
      BY <2>2
    <3>3. p \o added = (responses' \o requests) \o added
      BY <2>2
    <3> QED
      BY <3>1, <3>2, <3>3, <2>3
<1>8. q # <<>> => writePipeline' # <<>>
  <2>1. SUFFICES ASSUME q # <<>> PROVE writePipeline' # <<>>
    OBVIOUS
  <2>2. Len(q) \in Nat \ {0} /\ MaxPendingWrites \in Nat \ {0}
    BY <2>1, EmptySeq, ConstantsAssumption
  <2>3. Min({Len(q), MaxPendingWrites}) =
          IF Len(q) < MaxPendingWrites THEN Len(q) ELSE MaxPendingWrites
    BY <2>2, MinOfPair
  <2> DEFINE m == Min({Len(q), MaxPendingWrites})
  <2>4. m \in 1..Len(q)
    BY <2>2, <2>3
  <2> HIDE DEF m
  <2>5. \A i \in 1..m : q[i] \in Batch
    BY <2>4, ElementOfSeq
  <2>6. Len(SubSeq(q, 1, m)) = m
    BY <2>4, <2>5, SubSeqProperties
  <2>7. writePipeline' = SubSeq(q, 1, m)
    BY <1>2 DEF m
  <2>8. Len(writePipeline') # 0
    BY <2>4, <2>6, <2>7
  <2> QED
    BY <2>8, <1>2, EmptySeq
<1>9. idleTimer' => handshake = "complete" /\ writePipeline' = <<>>
  <2>1. CASE writePipeline' = <<>> /\ streamState = "Open"
    BY <2>1, <1>8
  <2>2. CASE idleTimer /\ ~ (streamState = "Open" /\ handshake = "complete" /\ added # <<>>)
    <3>1. handshake = "complete" /\ p = <<>> /\ added = <<>>
      BY <2>2, <1>4 DEF StreamConsistent
    <3> QED
      BY <3>1, <1>3, ConcatEmptySeq, EmptySeq
  <2> QED
    BY <2>1, <2>2, <1>3
<1>10. StreamConsistent'
  BY <1>2, <1>3, <1>9 DEF StreamConsistent
<1>11. AnswersJustified'
  <2>1. SUFFICES ASSUME serverStatus # "none", handshake = "complete"
                 PROVE  requests' # <<>> /\ Head(requests').write \in rejected
    BY DEF AnswersJustified
  <2>2. requests # <<>> /\ Head(requests).write \in rejected
    BY <2>1 DEF AnswersJustified
  <2>3. requests' = requests \o added
    BY <2>1, <1>3, <1>4
  <2> QED
    BY <2>2, <2>3, <1>1, TailOfConcat
<1> QED
  BY <1>2, <1>5, <1>6, <1>7, <1>10, <1>11 DEF StreamInv

\* An initial segment of a queue, and how long the pipeline is.
LEMMA PipelineIsInitial ==
    ASSUME TypeOK, PipelineIsQueueHead
    PROVE  /\ Initial(writePipeline, mutationQueue[currentUser])
           /\ Len(writePipeline) <= MaxPendingWrites
           /\ ~ isNetworkEnabled => writePipeline = <<>>
<1> DEFINE q == mutationQueue[currentUser]
           m == IF isNetworkEnabled THEN Min({Len(q), MaxPendingWrites}) ELSE 0
<1>1. q \in Seq(Batch) /\ MaxPendingWrites \in Nat /\ Len(q) \in Nat
  BY ConstantsAssumption DEF TypeOK
<1>2. writePipeline = SubSeq(q, 1, m)
  BY DEF PipelineIsQueueHead
<1>3. Min({Len(q), MaxPendingWrites}) =
          IF Len(q) < MaxPendingWrites THEN Len(q) ELSE MaxPendingWrites
  BY <1>1, MinOfPair
<1>4. m \in 0..Len(q) /\ m <= MaxPendingWrites
  BY <1>1, <1>3
<1>5. ~ isNetworkEnabled => m = 0
  OBVIOUS
<1> HIDE DEF q, m
<1>6. \A i \in 1..m : q[i] \in Batch
  BY <1>1, <1>4, ElementOfSeq
<1>7. Len(writePipeline) = m /\ \A i \in 1..m : writePipeline[i] = q[i]
  BY <1>1, <1>2, <1>4, <1>6, SubSeqProperties
<1>8. ~ isNetworkEnabled => writePipeline = <<>>
  BY <1>2, <1>5, SubSeqEmpty
<1> QED
  BY <1>4, <1>7, <1>8 DEF Initial, q

\* Storing a batch under a larger id keeps the queue in order and the pipeline an
\* initial segment of it.
LEMMA AppendBatch ==
    ASSUME NEW q \in Seq(Batch), NEW b \in Batch, Ascending(q),
           \A i \in 1..Len(q) : q[i].id < b.id
    PROVE  /\ Append(q, b) \in Seq(Batch) /\ Append(q, b) # <<>>
           /\ Len(Append(q, b)) = Len(q) + 1
           /\ \A i \in 1..Len(q) : Append(q, b)[i] = q[i]
           /\ Append(q, b)[Len(q) + 1] = b
           /\ Ascending(Append(q, b))
           /\ ToSet(q) \subseteq ToSet(Append(q, b)) /\ b \in ToSet(Append(q, b))
           /\ \A p \in Seq(Batch) : Initial(p, q) => Initial(p, Append(q, b))
<1> DEFINE a == Append(q, b)
<1>1. /\ a \in Seq(Batch) /\ a # <<>> /\ Len(a) = Len(q) + 1
      /\ \A i \in 1..Len(q) : a[i] = q[i]
      /\ a[Len(q) + 1] = b
  BY AppendProperties
<1>2. DOMAIN a = 1..Len(a) /\ DOMAIN q = 1..Len(q)
  BY <1>1, LenProperties
<1> HIDE DEF a
<1>3. Ascending(a)
  BY <1>1 DEF Ascending
<1>4. ToSet(q) \subseteq ToSet(a) /\ b \in ToSet(a)
  BY <1>1, <1>2 DEF ToSet
<1>5. \A p \in Seq(Batch) : Initial(p, q) => Initial(p, a)
  BY <1>1 DEF Initial
<1> QED
  BY <1>1, <1>3, <1>4, <1>5 DEF a

\* WriteMutations preserves the invariant: the new batch is the last of its queue and
\* reaches the pipeline and the stream only in its turn.
LEMMA WriteMutationsKeepsInv ==
    ASSUME Inv, WriteMutations
    PROVE  Inv'
<1> DEFINE u == currentUser
           q == mutationQueue[u]
           b == [user |-> u, id |-> nextBatchId, write |-> issued + 1]
           a == Append(q, b)
<1>1. /\ u \in Users /\ q \in Seq(Batch) /\ Ascending(q) /\ b \in Batch
      /\ \A i \in 1..Len(q) : q[i].id < b.id
  <2>1. u \in Users /\ q \in Seq(Batch) /\ nextBatchId \in Nat /\ issued \in Nat
    BY DEF Inv, TypeOK
  <2>2. b \in Batch
    BY <2>1 DEF Batch
  <2> QED
    BY <2>1, <2>2 DEF Inv, StoreInv, BatchIdsGrow
<1>2. /\ mutationQueue' = [mutationQueue EXCEPT ![u] = a]
      /\ nextBatchId' = nextBatchId + 1 /\ issued' = issued + 1
      /\ mutationCallbacks' = mutationCallbacks
           \/ mutationCallbacks' = [mutationCallbacks EXCEPT ![u] = @ \cup {b}]
      /\ UNCHANGED <<currentUser, pendingWritesCallbacks, isNetworkEnabled, handshake,
                     responses, serverStatus, abandoned, committed, rejected, toldOk,
                     toldError, faults>>
  BY DEF WriteMutations, WriteLocally, AddMutationBatch, backend, outcome
<1>3. /\ a \in Seq(Batch) /\ a # <<>> /\ Len(a) = Len(q) + 1
      /\ \A i \in 1..Len(q) : a[i] = q[i]
      /\ a[Len(q) + 1] = b
      /\ Ascending(a)
      /\ ToSet(q) \subseteq ToSet(a) /\ b \in ToSet(a)
      /\ \A p \in Seq(Batch) : Initial(p, q) => Initial(p, a)
  BY <1>1, AppendBatch
<1>4. b.id = nextBatchId /\ b.write = issued + 1
  OBVIOUS
<1>5. FillWritePipeline(isNetworkEnabled, writePipeline, mutationQueue'[u],
                        streamState, requests, idleTimer)
  BY DEF WriteMutations, WriteLocally, AddMutationBatch
<1> HIDE DEF b, a
<1>6. /\ mutationQueue' \in [Users -> Seq(Batch)] /\ mutationQueue'[u] = a
      /\ \A v \in Users \ {u} : mutationQueue'[v] = mutationQueue[v]
  BY <1>1, <1>2, <1>3 DEF Inv, TypeOK
<1> HIDE DEF q
<1>7. StoreInv'
  <2>1. BatchIdsGrow'
    <3>1. \A v \in Users : Ascending(mutationQueue'[v])
      BY <1>3, <1>6 DEF Inv, StoreInv, BatchIdsGrow
    <3>2. \A i \in 1..Len(a) : a[i].id < nextBatchId + 1
      <4>1. \A i \in 1..Len(q) : q[i].id \in Nat
        <5>1. \A i \in 1..Len(q) : q[i] \in Batch
          BY <1>1, ElementOfSeq
        <5> QED
          BY <5>1 DEF Batch
      <4>2. nextBatchId \in Nat /\ Len(q) \in Nat
        BY <1>1 DEF Inv, TypeOK
      <4> QED
        BY <4>1, <4>2, <1>1, <1>3, <1>4
    <3> QED
      BY <3>1, <3>2, <1>2, <1>6 DEF BatchIdsGrow
  <2>2. IdsBounded'
    <3>1. \A v \in Users : \A i \in 1..Len(mutationQueue[v]) :
             mutationQueue[v][i] \in Batch /\ mutationQueue[v][i].id \in Nat
      <4>1. \A v \in Users : mutationQueue[v] \in Seq(Batch)
        BY DEF Inv, TypeOK
      <4>2. \A v \in Users : \A i \in 1..Len(mutationQueue[v]) : mutationQueue[v][i] \in Batch
        BY <4>1, ElementOfSeq
      <4> QED
        BY <4>2 DEF Batch
    <3>2. \A v \in Users : \A i \in 1..Len(mutationQueue[v]) :
             mutationQueue[v][i].id <= issued + 1
      BY <3>1 DEF Inv, TypeOK, StoreInv, IdsBounded
    <3>3. \A i \in 1..Len(a) : a[i].id <= issued + 1
      BY <3>2, <1>1, <1>3, <1>4 DEF q, Inv, StoreInv, IdsBounded
    <3> QED
      BY <3>2, <3>3, <1>2, <1>6 DEF Inv, TypeOK, StoreInv, IdsBounded
  <2>3. CallbacksAreQueued'
    <3>1. \A v \in Users : /\ mutationCallbacks[v] \in SUBSET Batch
                           /\ mutationCallbacks[v] \subseteq ToSet(mutationQueue[v])
      BY DEF Inv, TypeOK, StoreInv, CallbacksAreQueued
    <3>2. \A v \in Users : mutationCallbacks'[v] \subseteq
             IF v = u THEN mutationCallbacks[v] \cup {b} ELSE mutationCallbacks[v]
      BY <1>2 DEF Inv, TypeOK
    <3> QED
      BY <3>1, <3>2, <1>3, <1>6 DEF CallbacksAreQueued, q
  <2>4. OkMeansCommitted' /\ ErrorsJustified'
    BY <1>2 DEF Inv, StoreInv, OkMeansCommitted, ErrorsJustified, ErrorMeansRejected
  <2>5. NothingLost'
    <3>1. SUFFICES ASSUME NEW w \in 1..(issued + 1)
                   PROVE  \/ w \in Decided'
                          \/ \E v \in Users : w \in Writes(ToSet(mutationQueue'[v]))
      BY <1>2 DEF NothingLost
    <3>2. CASE w = issued + 1
      BY <3>2, <1>1, <1>3, <1>4, <1>6 DEF Writes
    <3>3. CASE w \in 1..issued
      <4>1. \A v \in Users : ToSet(mutationQueue[v]) \subseteq ToSet(mutationQueue'[v])
        BY <1>3, <1>6 DEF q
      <4>2. \/ w \in Decided
            \/ \E v \in Users : w \in Writes(ToSet(mutationQueue[v]))
        BY <3>3 DEF Inv, StoreInv, NothingLost
      <4> QED
        BY <4>1, <4>2, <1>2 DEF Decided, Writes
    <3> QED
      BY <3>2, <3>3 DEF Inv, TypeOK
  <2> QED
    BY <2>1, <2>2, <2>3, <2>4, <2>5 DEF StoreInv
<1>8. mutationCallbacks' \in [Users -> SUBSET Batch]
  BY <1>1, <1>2 DEF Inv, TypeOK
<1>9. /\ Initial(writePipeline, a) /\ Len(writePipeline) <= MaxPendingWrites
      /\ ~ isNetworkEnabled => writePipeline = <<>>
      /\ writePipeline \in Seq(Batch)
  BY <1>3, PipelineIsInitial DEF Inv, TypeOK, StreamInv, q
<1>10. CASE isNetworkEnabled
  <2>1. isNetworkEnabled = TRUE
    BY <1>10 DEF Inv, TypeOK
  <2>2. FillWritePipeline(TRUE, writePipeline, a, streamState, requests, idleTimer)
    BY <1>5, <1>6, <2>1
  <2>3. /\ responses' \in Seq(Batch)
        /\ \A i \in 1..Len(responses') : responses'[i].write \in committed
        /\ IF handshake = "complete" THEN responses' \o requests = writePipeline
                                     ELSE responses' = <<>>
        /\ writePipeline = <<>> \/ idleTimer = FALSE
    BY <1>2 DEF Inv, TypeOK, StreamInv, StreamConsistent, ResponsesMatchPipeline,
                AnswersJustified
  <2>4. TypeOK /\ StreamConsistent /\ AnswersJustified
    BY DEF Inv, StreamInv
  <2>5. /\ StreamInv'
        /\ writePipeline' \in Seq(Batch) /\ requests' \in Seq(Batch)
        /\ idleTimer' \in BOOLEAN /\ streamState' \in StreamStates
    BY <1>2, <1>3, <1>6, <1>9, <1>10, <2>2, <2>3, <2>4, FillLiveStream
  <2>6. TypeOK'
    BY <1>2, <1>6, <1>8, <2>5 DEF Inv, TypeOK
  <2> QED
    BY <1>7, <2>5, <2>6 DEF Inv
<1>11. CASE ~ isNetworkEnabled
  <2>1. /\ isNetworkEnabled = FALSE /\ streamState # "Open" /\ idleTimer = FALSE
        /\ writePipeline = <<>>
    BY <1>9, <1>11 DEF Inv, TypeOK, StreamInv, StreamConsistent, IsStarted
  <2>2. FillWritePipeline(FALSE, <<>>, a, streamState, requests, FALSE)
    BY <1>5, <1>6, <2>1
  <2>3. <<>> \o <<>> = <<>>
    BY EmptySeq, ConcatEmptySeq
  <2>4. UNCHANGED <<writePipeline, requests, idleTimer, streamState>>
    BY <2>1, <2>2, <2>3 DEF FillWritePipeline
  <2>5. TypeOK'
    BY <1>2, <1>6, <1>8, <2>4 DEF Inv, TypeOK
  <2>6. PipelineIsQueueHead'
    <3>1. SubSeq(a, 1, 0) = <<>>
      BY SubSeqEmpty
    <3> QED
      BY <3>1, <1>2, <1>6, <2>1, <2>4 DEF PipelineIsQueueHead
  <2>7. StreamInv'
    BY <1>2, <2>4, <2>6 DEF Inv, StreamInv, PendingMeansStarted, StreamConsistent,
       ResponsesMatchPipeline, AnswersJustified
  <2> QED
    BY <1>7, <2>5, <2>7 DEF Inv
<1> QED
  BY <1>10, <1>11

\* The head of the pipeline is the head of the queue, the only batch of its id, and
\* removing it leaves both in step.
LEMMA RemoveHeadBatch ==
    ASSUME Inv, writePipeline # <<>>, NEW q, q = mutationQueue[currentUser],
           NEW batch, batch = Head(writePipeline)
    PROVE  /\ q \in Seq(Batch) /\ q # <<>> /\ batch \in Batch
           /\ RemoveMutationBatch(q, batch.id) = Tail(q)
           /\ Tail(q) \in Seq(Batch) /\ Ascending(Tail(q))
           /\ Len(q) \in Nat \ {0} /\ Len(Tail(q)) = Len(q) - 1
           /\ \A i \in 1..Len(Tail(q)) : Tail(q)[i] = q[i + 1]
           /\ Tail(writePipeline) \in Seq(Batch)
           /\ Initial(Tail(writePipeline), Tail(q))
           /\ Len(Tail(writePipeline)) <= MaxPendingWrites
           /\ ToSet(q) = ToSet(Tail(q)) \cup {batch}
           /\ \A c \in ToSet(q) : c.id = batch.id => c = batch
           /\ isNetworkEnabled = TRUE
<1>1. /\ q \in Seq(Batch) /\ writePipeline \in Seq(Batch) /\ Ascending(q)
      /\ isNetworkEnabled \in BOOLEAN
  BY DEF Inv, TypeOK, StoreInv, BatchIdsGrow
<1>2. /\ Initial(writePipeline, q) /\ Len(writePipeline) <= MaxPendingWrites
      /\ ~ isNetworkEnabled => writePipeline = <<>>
  BY PipelineIsInitial DEF Inv, StreamInv
<1>3. isNetworkEnabled = TRUE
  BY <1>1, <1>2
<1>4. Len(writePipeline) \in Nat \ {0} /\ Len(q) \in Nat \ {0} /\ q # <<>>
  <2>1. Len(writePipeline) \in Nat \ {0}
    BY <1>1, EmptySeq
  <2>2. Len(q) \in Nat \ {0}
    BY <1>1, <1>2, <2>1 DEF Initial
  <2> QED
    BY <1>1, <2>1, <2>2, EmptySeq
<1>5. batch = q[1] /\ batch \in Batch
  <2>1. batch = writePipeline[1] /\ 1 \in 1..Len(writePipeline)
    BY <1>1, <1>4, HeadTailProperties
  <2>2. batch = q[1] /\ 1 \in 1..Len(q)
    BY <2>1, <1>2, <1>4 DEF Initial
  <2> QED
    BY <2>2, <1>1, ElementOfSeq
<1>6. /\ Tail(q) \in Seq(Batch) /\ Len(Tail(q)) = Len(q) - 1
      /\ \A i \in 1..Len(Tail(q)) : Tail(q)[i] = q[i + 1]
  BY <1>1, <1>4, HeadTailProperties
<1>7. /\ Tail(writePipeline) \in Seq(Batch)
      /\ Len(Tail(writePipeline)) = Len(writePipeline) - 1
      /\ \A i \in 1..Len(Tail(writePipeline)) :
            Tail(writePipeline)[i] = writePipeline[i + 1]
  BY <1>1, HeadTailProperties
<1>8. \A i \in 1..Len(q) : q[i] \in Batch /\ q[i].id \in Nat
  <2>1. \A i \in 1..Len(q) : q[i] \in Batch
    BY <1>1, ElementOfSeq
  <2> QED
    BY <2>1 DEF Batch
<1>9. \A i \in 1..Len(q) : q[i].id = batch.id => i = 1
  BY <1>1, <1>4, <1>5, <1>8 DEF Ascending
<1>10. RemoveMutationBatch(q, batch.id) = Tail(q)
  <2>1. 1 \in 1..Len(q) /\ q[1].id = batch.id
    BY <1>4, <1>5
  <2>2. (CHOOSE i \in 1..Len(q) : q[i].id = batch.id) = 1
    BY <2>1, <1>9
  <2>3. RemoveAt(q, 1) = Tail(q)
    BY <1>1, <1>4, RemoveHead
  <2> QED
    BY <2>2, <2>3 DEF RemoveMutationBatch
<1>11. Ascending(Tail(q))
  <2>1. SUFFICES ASSUME NEW i \in 1..Len(Tail(q)), NEW j \in 1..Len(Tail(q)), i < j
                 PROVE  Tail(q)[i].id < Tail(q)[j].id
    BY DEF Ascending
  <2>2. i + 1 \in 1..Len(q) /\ j + 1 \in 1..Len(q) /\ i + 1 < j + 1
    BY <2>1, <1>4, <1>6
  <2> QED
    BY <2>1, <2>2, <1>1, <1>6 DEF Ascending
<1>12. Initial(Tail(writePipeline), Tail(q))
  <2>1. Len(Tail(writePipeline)) <= Len(Tail(q))
    BY <1>2, <1>4, <1>6, <1>7 DEF Initial
  <2>2. ASSUME NEW i \in 1..Len(Tail(writePipeline))
        PROVE  Tail(writePipeline)[i] = Tail(q)[i]
    <3>1. i + 1 \in 1..Len(writePipeline) /\ i \in 1..Len(Tail(q))
      BY <2>1, <1>4, <1>6, <1>7
    <3>2. writePipeline[i + 1] = q[i + 1]
      BY <3>1, <1>2 DEF Initial
    <3> QED
      BY <3>1, <3>2, <1>6, <1>7
  <2> QED
    BY <2>1, <2>2 DEF Initial
<1>13. ToSet(q) = ToSet(Tail(q)) \cup {batch}
  <2>1. DOMAIN q = 1..Len(q) /\ DOMAIN Tail(q) = 1..(Len(q) - 1)
    BY <1>1, <1>6, LenProperties
  <2>2. ToSet(q) = {q[i] : i \in 1..Len(q)}
    BY <2>1 DEF ToSet
  <2>3. ToSet(Tail(q)) = {q[i + 1] : i \in 1..(Len(q) - 1)}
    BY <2>1, <1>6 DEF ToSet
  <2>4. \A i \in 1..Len(q) : i = 1 \/ (i - 1 \in 1..(Len(q) - 1) /\ i = (i - 1) + 1)
    BY <1>4
  <2>5. \A i \in 1..(Len(q) - 1) : i + 1 \in 1..Len(q)
    BY <1>4
  <2>6. ToSet(q) \subseteq ToSet(Tail(q)) \cup {batch}
    BY <2>2, <2>3, <2>4, <1>5
  <2>7. ToSet(Tail(q)) \cup {batch} \subseteq ToSet(q)
    BY <2>2, <2>3, <2>5, <1>4, <1>5
  <2> QED
    BY <2>6, <2>7
<1>14. \A c \in ToSet(q) : c.id = batch.id => c = batch
  <2>1. DOMAIN q = 1..Len(q)
    BY <1>1, LenProperties
  <2> QED
    BY <2>1, <1>5, <1>9 DEF ToSet
<1>15. Len(Tail(writePipeline)) <= MaxPendingWrites
  BY <1>2, <1>4, <1>7, ConstantsAssumption
<1> QED
  BY <1>1, <1>3, <1>4, <1>5, <1>6, <1>7, <1>10, <1>11, <1>12, <1>13, <1>14, <1>15

\* Removing the decided head of the queue and telling its writer keeps the first
\* half of the invariant.
LEMMA HeadDecided ==
    ASSUME Inv, writePipeline # <<>>, NEW batch, batch = Head(writePipeline),
           mutationQueue' = [mutationQueue EXCEPT
                ![currentUser] = RemoveMutationBatch(@, batch.id)],
           mutationCallbacks' = [mutationCallbacks EXCEPT
                ![currentUser] = @ \ {c \in mutationCallbacks[currentUser] : c.id = batch.id}],
           UNCHANGED <<nextBatchId, currentUser, issued, committed, rejected>>,
           batch.write \in Decided, OkMeansCommitted', ErrorsJustified'
    PROVE  /\ StoreInv'
           /\ mutationQueue' \in [Users -> Seq(Batch)]
           /\ mutationQueue'[currentUser] = Tail(mutationQueue[currentUser])
           /\ mutationCallbacks' \in [Users -> SUBSET Batch]
<1> DEFINE q == mutationQueue[currentUser]
<1>1. /\ q \in Seq(Batch) /\ q # <<>> /\ batch \in Batch
      /\ RemoveMutationBatch(q, batch.id) = Tail(q)
      /\ Tail(q) \in Seq(Batch) /\ Ascending(Tail(q))
      /\ Len(q) \in Nat \ {0} /\ Len(Tail(q)) = Len(q) - 1
      /\ \A i \in 1..Len(Tail(q)) : Tail(q)[i] = q[i + 1]
      /\ ToSet(q) = ToSet(Tail(q)) \cup {batch}
  BY RemoveHeadBatch
<1>2. currentUser \in Users /\ mutationQueue \in [Users -> Seq(Batch)]
      /\ mutationCallbacks \in [Users -> SUBSET Batch]
  BY DEF Inv, TypeOK
<1>3. /\ mutationQueue' \in [Users -> Seq(Batch)] /\ mutationQueue'[currentUser] = Tail(q)
      /\ \A v \in Users \ {currentUser} : mutationQueue'[v] = mutationQueue[v]
  BY <1>1, <1>2
<1>4. /\ mutationCallbacks' \in [Users -> SUBSET Batch]
      /\ \A v \in Users \ {currentUser} : mutationCallbacks'[v] = mutationCallbacks[v]
      /\ mutationCallbacks'[currentUser] =
           {c \in mutationCallbacks[currentUser] : c.id # batch.id}
  BY <1>2
<1> HIDE DEF q
<1>5. BatchIdsGrow'
  <2>1. \A v \in Users : Ascending(mutationQueue'[v])
    BY <1>1, <1>3 DEF Inv, StoreInv, BatchIdsGrow
  <2>2. \A i \in 1..Len(q) : q[i].id < nextBatchId
    BY DEF Inv, StoreInv, BatchIdsGrow, q
  <2>3. \A i \in 1..Len(Tail(q)) : i + 1 \in 1..Len(q)
    BY <1>1
  <2>4. \A i \in 1..Len(Tail(q)) : Tail(q)[i].id < nextBatchId
    BY <2>2, <2>3, <1>1
  <2> QED
    BY <2>1, <2>4, <1>3 DEF BatchIdsGrow
<1>6. IdsBounded'
  <2>1. \A v \in Users : \A i \in 1..Len(mutationQueue[v]) : mutationQueue[v][i].id <= issued
    BY DEF Inv, StoreInv, IdsBounded
  <2>2. \A i \in 1..Len(Tail(q)) : i + 1 \in 1..Len(q)
    BY <1>1
  <2>3. \A i \in 1..Len(Tail(q)) : Tail(q)[i].id <= issued
    BY <2>1, <2>2, <1>1, <1>2 DEF q
  <2>4. nextBatchId <= issued + 1
    BY DEF Inv, StoreInv, IdsBounded
  <2> QED
    BY <2>1, <2>3, <2>4, <1>3 DEF IdsBounded
<1>7. CallbacksAreQueued'
  <2>1. \A v \in Users : mutationCallbacks[v] \subseteq ToSet(mutationQueue[v])
    BY DEF Inv, StoreInv, CallbacksAreQueued
  <2>2. mutationCallbacks'[currentUser] \subseteq ToSet(Tail(q))
    BY <2>1, <1>1, <1>2, <1>4 DEF q
  <2> QED
    BY <2>1, <2>2, <1>3, <1>4 DEF CallbacksAreQueued
<1>8. NothingLost'
  <2>1. SUFFICES ASSUME NEW w \in 1..issued
                 PROVE  \/ w \in Decided
                        \/ \E v \in Users : w \in Writes(ToSet(mutationQueue'[v]))
    BY DEF NothingLost, Decided
  <2>2. CASE w \in Decided
    BY <2>2
  <2>3. CASE \E v \in Users : w \in Writes(ToSet(mutationQueue[v]))
    <3>1. PICK v \in Users : w \in Writes(ToSet(mutationQueue[v]))
      BY <2>3
    <3>2. CASE v = currentUser
      <4>1. PICK c \in ToSet(q) : w = c.write
        BY <3>1, <3>2 DEF Writes, q
      <4>2. CASE c = batch
        BY <4>1, <4>2
      <4>3. CASE c \in ToSet(Tail(q))
        BY <4>1, <4>3, <3>2, <1>2, <1>3 DEF Writes
      <4> QED
        BY <4>1, <4>2, <4>3, <1>1
    <3>3. CASE v # currentUser
      BY <3>1, <3>3, <1>3
    <3> QED
      BY <3>2, <3>3
  <2> QED
    BY <2>2, <2>3 DEF Inv, StoreInv, NothingLost
<1> QED
  BY <1>3, <1>4, <1>5, <1>6, <1>7, <1>8 DEF StoreInv, q

\* Only the writer of the head of the pipeline can be registered under its id.
LEMMA FoundIsHead ==
    ASSUME Inv, writePipeline # <<>>, NEW batch, batch = Head(writePipeline)
    PROVE  Writes({c \in mutationCallbacks[currentUser] : c.id = batch.id})
              \subseteq {batch.write}
<1>1. currentUser \in Users
  BY DEF Inv, TypeOK
<1>2. mutationCallbacks[currentUser] \subseteq ToSet(mutationQueue[currentUser])
  BY <1>1 DEF Inv, StoreInv, CallbacksAreQueued
<1>3. \A c \in ToSet(mutationQueue[currentUser]) : c.id = batch.id => c = batch
  BY RemoveHeadBatch
<1> QED
  BY <1>2, <1>3 DEF Writes

\* With hands shaken, the next answer, read or to come, is about the pipeline's head.
LEMMA AnswerIsHead ==
    ASSUME Inv, handshake = "complete"
    PROVE  /\ responses # <<>> =>
                /\ writePipeline # <<>> /\ Head(writePipeline) = Head(responses)
                /\ Tail(writePipeline) = Tail(responses) \o requests
                /\ Head(writePipeline).write \in committed
           /\ responses = <<>> /\ serverStatus # "none" =>
                /\ writePipeline # <<>>
                /\ Head(writePipeline).write \in rejected
<1>1. responses \in Seq(Batch) /\ requests \in Seq(Batch)
  BY DEF Inv, TypeOK
<1>2. responses \o requests = writePipeline
  BY DEF Inv, StreamInv, ResponsesMatchPipeline
<1>3. ASSUME responses # <<>>
      PROVE  /\ writePipeline # <<>> /\ Head(writePipeline) = Head(responses)
             /\ Tail(writePipeline) = Tail(responses) \o requests
             /\ Head(writePipeline).write \in committed
  <2>1. /\ writePipeline # <<>> /\ Head(writePipeline) = Head(responses)
        /\ Tail(writePipeline) = Tail(responses) \o requests
    BY <1>1, <1>2, <1>3, TailOfConcat
  <2>2. Head(responses) = responses[1] /\ 1 \in 1..Len(responses)
    BY <1>1, <1>3, HeadTailProperties, EmptySeq
  <2> QED
    BY <2>1, <2>2 DEF Inv, StreamInv, AnswersJustified
<1>4. ASSUME responses = <<>>, serverStatus # "none"
      PROVE  writePipeline # <<>> /\ Head(writePipeline).write \in rejected
  <2>1. <<>> \o requests = requests
    BY <1>1, ConcatEmptySeq
  <2>2. requests = writePipeline
    BY <2>1, <1>2, <1>4
  <2> QED
    BY <2>2, <1>4 DEF Inv, StreamInv, AnswersJustified
<1> QED
  BY <1>3, <1>4

\* OnWriteStreamMutationResult preserves the invariant: the head of the pipeline is
\* the write that was answered.
LEMMA OnWriteStreamMutationResultKeepsInv ==
    ASSUME Inv, OnWriteStreamMutationResult
    PROVE  Inv'
<1> DEFINE batch == Head(writePipeline)
           q     == mutationQueue[currentUser]
           found == {c \in mutationCallbacks[currentUser] : c.id = batch.id}
<1>1. /\ handshake = "complete" /\ responses # <<>> /\ responses' = Tail(responses)
      /\ mutationCallbacks' = [mutationCallbacks EXCEPT ![currentUser] = @ \ found]
      /\ toldOk' = toldOk \cup Writes(found) /\ toldError' = toldError
      /\ pendingWritesCallbacks' \subseteq pendingWritesCallbacks
      /\ mutationQueue' = [mutationQueue EXCEPT
              ![currentUser] = RemoveMutationBatch(@, batch.id)]
      /\ UNCHANGED <<nextBatchId, currentUser, isNetworkEnabled, handshake, serverStatus,
                     abandoned, committed, rejected, issued, faults>>
  BY DEF OnWriteStreamMutationResult, HandleSuccessfulWrite, AcknowledgeBatch, NotifyUser,
     TriggerPendingWriteCallbacks, backend
<1>2. FillWritePipeline(isNetworkEnabled, Tail(writePipeline),
                        mutationQueue'[currentUser], streamState, requests, idleTimer)
  BY DEF OnWriteStreamMutationResult
<1>3. /\ writePipeline # <<>>
      /\ Tail(writePipeline) = Tail(responses) \o requests
      /\ batch.write \in committed
  BY <1>1, AnswerIsHead
<1>4. /\ Tail(q) \in Seq(Batch) /\ Ascending(Tail(q))
      /\ Tail(writePipeline) \in Seq(Batch)
      /\ Initial(Tail(writePipeline), Tail(q))
      /\ Len(Tail(writePipeline)) <= MaxPendingWrites
      /\ isNetworkEnabled = TRUE /\ batch \in Batch
  BY <1>3, RemoveHeadBatch
<1>5. batch.write \in Nat
  <2>1. batch \in Batch
    BY <1>4
  <2> QED
    BY <2>1 DEF Batch
<1>6. Writes(found) \subseteq {batch.write}
  BY <1>3, FoundIsHead
<1> HIDE DEF found
<1>7. OkMeansCommitted' /\ ErrorsJustified' /\ toldOk' \in SUBSET Nat
  BY <1>1, <1>3, <1>5, <1>6 DEF Inv, TypeOK, StoreInv, OkMeansCommitted, ErrorsJustified,
     ErrorMeansRejected
<1>8. /\ StoreInv'
      /\ mutationQueue' \in [Users -> Seq(Batch)]
      /\ mutationQueue'[currentUser] = Tail(q)
      /\ mutationCallbacks' \in [Users -> SUBSET Batch]
  BY <1>1, <1>3, <1>7, HeadDecided DEF found, Decided
<1>9. FillWritePipeline(TRUE, Tail(writePipeline), Tail(q), streamState, requests,
                        idleTimer)
  BY <1>2, <1>4, <1>8
<1>10. /\ responses' \in Seq(Batch)
       /\ \A i \in 1..Len(responses') : responses'[i].write \in committed
  <2>1. responses \in Seq(Batch)
    BY DEF Inv, TypeOK
  <2>2. /\ Tail(responses) \in Seq(Batch) /\ Len(Tail(responses)) = Len(responses) - 1
        /\ \A i \in 1..Len(Tail(responses)) : Tail(responses)[i] = responses[i + 1]
        /\ Len(responses) \in Nat
    BY <2>1, <1>1, HeadTailProperties
  <2>3. \A i \in 1..Len(Tail(responses)) : i + 1 \in 1..Len(responses)
    BY <2>2
  <2> QED
    BY <2>2, <2>3, <1>1 DEF Inv, StreamInv, AnswersJustified
<1>11. idleTimer = FALSE
  BY <1>3 DEF Inv, TypeOK, StreamInv, StreamConsistent
<1>12. TypeOK /\ StreamConsistent /\ AnswersJustified
  BY DEF Inv, StreamInv
<1>13. mutationQueue'[currentUser'] = Tail(q)
  BY <1>1, <1>8
<1> DEFINE p == Tail(writePipeline)
           t == Tail(q)
<1>14. /\ p \in Seq(Batch) /\ t \in Seq(Batch) /\ Ascending(t) /\ Initial(p, t)
       /\ Len(p) <= MaxPendingWrites
       /\ FillWritePipeline(TRUE, p, t, streamState, requests, idleTimer)
       /\ mutationQueue'[currentUser'] = t
       /\ responses' \o requests = p
  BY <1>1, <1>3, <1>4, <1>9, <1>13
<1> HIDE DEF p, t, q, batch
<1>15. /\ StreamInv'
       /\ writePipeline' \in Seq(Batch) /\ requests' \in Seq(Batch)
       /\ idleTimer' \in BOOLEAN /\ streamState' \in StreamStates
  BY <1>1, <1>4, <1>10, <1>11, <1>12, <1>14, FillLiveStream
<1>16. TypeOK'
  BY <1>1, <1>7, <1>8, <1>10, <1>15 DEF Inv, TypeOK
<1> QED
  BY <1>8, <1>15, <1>16 DEF Inv

\* HandleWriteError preserves the invariant: the head of the pipeline is the write
\* that was refused, or one whose response was overtaken by the status.
LEMMA HandleWriteErrorKeepsInv ==
    ASSUME Inv, HandleWriteError, handshake = "complete", serverStatus # "none",
           responses = <<>> \/ LossyFinish, faults' \in Nat
    PROVE  Inv'
<1> DEFINE batch == Head(writePipeline)
           q     == mutationQueue[currentUser]
           found == {c \in mutationCallbacks[currentUser] : c.id = batch.id}
<1>1. /\ mutationCallbacks' = [mutationCallbacks EXCEPT ![currentUser] = @ \ found]
      /\ toldOk' = toldOk /\ toldError' = toldError \cup Writes(found)
      /\ pendingWritesCallbacks' \subseteq pendingWritesCallbacks
      /\ mutationQueue' = [mutationQueue EXCEPT
              ![currentUser] = RemoveMutationBatch(@, batch.id)]
      /\ UNCHANGED <<nextBatchId, currentUser, isNetworkEnabled, committed, rejected, issued>>
      /\ ResetStream
  BY DEF HandleWriteError, HandleRejectedWrite, RejectBatch, NotifyUser,
         TriggerPendingWriteCallbacks, backend
<1>2. FillWritePipeline(isNetworkEnabled, Tail(writePipeline),
                        mutationQueue'[currentUser], "Initial", <<>>, FALSE)
  BY DEF HandleWriteError
<1>3. /\ writePipeline # <<>> /\ batch.write \in Decided
      /\ ~ LossyFinish => batch.write \in rejected
  BY AnswerIsHead DEF Decided
<1>4. /\ Tail(q) \in Seq(Batch) /\ Ascending(Tail(q))
      /\ Tail(writePipeline) \in Seq(Batch)
      /\ Initial(Tail(writePipeline), Tail(q))
      /\ Len(Tail(writePipeline)) <= MaxPendingWrites
      /\ isNetworkEnabled = TRUE /\ batch \in Batch
  BY <1>3, RemoveHeadBatch
<1>5. batch.write \in Nat
  <2>1. batch \in Batch
    BY <1>4
  <2> QED
    BY <2>1 DEF Batch
<1>6. Writes(found) \subseteq {batch.write}
  BY <1>3, FoundIsHead
<1> HIDE DEF found
<1>7. OkMeansCommitted' /\ ErrorsJustified' /\ toldError' \in SUBSET Nat
  BY <1>1, <1>3, <1>5, <1>6 DEF Inv, TypeOK, StoreInv, OkMeansCommitted, ErrorsJustified,
     ErrorMeansRejected
<1>8. /\ StoreInv'
      /\ mutationQueue' \in [Users -> Seq(Batch)]
      /\ mutationQueue'[currentUser] = Tail(q)
      /\ mutationCallbacks' \in [Users -> SUBSET Batch]
  BY <1>1, <1>3, <1>7, HeadDecided DEF found
<1> DEFINE p == Tail(writePipeline)
           t == Tail(q)
<1>9. /\ p \in Seq(Batch) /\ t \in Seq(Batch) /\ Ascending(t) /\ Initial(p, t)
      /\ Len(p) <= MaxPendingWrites
      /\ FillWritePipeline(TRUE, p, t, "Initial", <<>>, FALSE)
      /\ mutationQueue'[currentUser'] = t /\ isNetworkEnabled' = TRUE
  BY <1>1, <1>2, <1>4, <1>8
<1> HIDE DEF p, t, q, batch
<1>10. TypeOK
  BY DEF Inv
<1>11. StreamInv' /\ Restarted
  BY <1>1, <1>9, <1>10, FillClosedStream
<1>12. TypeOK'
  BY <1>1, <1>7, <1>8, <1>11, EmptyBatches DEF Inv, TypeOK, Restarted
<1> QED
  BY <1>8, <1>11, <1>12 DEF Inv

\* OnStreamFinish preserves the invariant on both branches of OnWriteStreamClose.
LEMMA OnStreamFinishKeepsInv ==
    ASSUME Inv, OnStreamFinish
    PROVE  Inv'
<1>1. /\ streamState = "Open" /\ serverStatus # "none"
      /\ responses = <<>> \/ LossyFinish
      /\ OnWriteStreamClose(serverStatus) /\ faults' = faults
  BY DEF OnStreamFinish
<1>2. faults' \in Nat /\ IsStarted(streamState)
  BY <1>1 DEF Inv, TypeOK, IsStarted
<1>3. CASE HandleWriteError /\ handshake = "complete"
  BY <1>1, <1>2, <1>3, HandleWriteErrorKeepsInv
<1>4. CASE CloseAndRetry
  BY <1>2, <1>4, CloseAndRetryKeepsInv
<1> QED
  BY <1>1, <1>3, <1>4 DEF OnWriteStreamClose

\* ConnectionLost preserves the invariant: it never takes the write error branch.
LEMMA ConnectionLostKeepsInv ==
    ASSUME Inv, NEW status \in Statuses, ConnectionLost(status)
    PROVE  Inv'
<1>1. CloseAndRetry /\ Fault /\ IsStarted(streamState)
  BY DEF ConnectionLost, OnWriteStreamClose, IsPermanentWriteError, IsPermanentError,
         Statuses, IsStarted
<1>2. faults' \in Nat
  BY <1>1, FaultType DEF Inv
<1> QED
  BY <1>1, <1>2, CloseAndRetryKeepsInv

\* AuthFailure preserves the invariant.
LEMMA AuthFailureKeepsInv ==
    ASSUME Inv, AuthFailure
    PROVE  Inv'
<1>1. CloseAndRetry /\ Fault /\ IsStarted(streamState)
  BY DEF AuthFailure, IsStarted
<1>2. faults' \in Nat
  BY <1>1, FaultType DEF Inv
<1> QED
  BY <1>1, <1>2, CloseAndRetryKeepsInv

\* CrashAfterNotify preserves the invariant: what was told is committed.
LEMMA CrashAfterNotifyKeepsInv ==
    ASSUME Inv, NEW user \in Users, CrashAfterNotify(user)
    PROVE  Inv'
<1> DEFINE batch == Head(writePipeline)
           found == {c \in mutationCallbacks[currentUser] : c.id = batch.id}
<1>1. /\ handshake = "complete" /\ responses # <<>>
      /\ toldOk' = toldOk \cup Writes(found)
      /\ Restart(user) /\ UNCHANGED toldError /\ committed' = committed
  BY DEF CrashAfterNotify, Restart, backend
<1>2. writePipeline # <<>> /\ batch.write \in committed
  BY <1>1, AnswerIsHead
<1>3. Writes(found) \subseteq {batch.write}
  BY <1>2, FoundIsHead
<1> HIDE DEF found
<1>4. toldOk' \in SUBSET Nat /\ OkMeansCommitted'
  BY <1>1, <1>2, <1>3 DEF Inv, TypeOK, StoreInv, OkMeansCommitted
<1> QED
  BY <1>1, <1>4, RestartKeepsInv

\* A step that changes nothing preserves the invariant.
LEMMA StutterKeepsInv ==
    ASSUME Inv, UNCHANGED vars
    PROVE  Inv'
<1> USE DEF vars, store, engine, stream, wire, backend, outcome
<1>1. TypeOK'
  BY DEF Inv, TypeOK
<1>2. StoreInv'
  BY StoreFrame DEF Inv
<1>3. StreamInv'
  BY DEF Inv, StreamInv, PipelineIsQueueHead, PendingMeansStarted, StreamConsistent,
         ResponsesMatchPipeline, AnswersJustified
<1> QED
  BY <1>1, <1>2, <1>3 DEF Inv

-----------------------------------------------------------------------------
(* The induction. *)

\* A fresh client satisfies the inductive invariant.
LEMMA InitEstablishesInv ==
    ASSUME Init
    PROVE  Inv
<1> USE DEF Init
<1>1. TypeOK
  <2>1. /\ mutationQueue \in [Users -> Seq(Batch)]
        /\ mutationCallbacks \in [Users -> SUBSET Batch]
    BY EmptyBatches
  <2>2. /\ writePipeline \in Seq(Batch) /\ requests \in Seq(Batch)
        /\ responses \in Seq(Batch)
    BY EmptyBatches
  <2>3. /\ streamState \in StreamStates /\ serverStatus \in {"none"} \cup Statuses
        /\ handshake \in {"none", "sent", "answered", "complete"}
    BY DEF StreamStates
  <2>4. /\ nextBatchId \in Nat \ {0} /\ issued \in Nat /\ faults \in Nat
    OBVIOUS
  <2>5. isNetworkEnabled \in BOOLEAN /\ idleTimer \in BOOLEAN /\ currentUser \in Users
    BY Zenon
  <2>6. /\ pendingWritesCallbacks \in SUBSET [id : Nat, writes : SUBSET Nat]
        /\ abandoned \in SUBSET (Seq(Batch) \ {<<>>})
        /\ committed \in SUBSET Nat /\ rejected \in SUBSET Nat
        /\ toldOk \in SUBSET Nat /\ toldError \in SUBSET Nat
    OBVIOUS
  <2> QED
    BY <2>1, <2>2, <2>3, <2>4, <2>5, <2>6, Zenon DEF TypeOK
<1>2. StoreInv
  <2>1. \A u \in Users : Len(mutationQueue[u]) = 0
    OBVIOUS
  <2>2. BatchIdsGrow /\ IdsBounded
    BY <1>1, <2>1 DEF BatchIdsGrow, IdsBounded, Ascending, TypeOK
  <2>3. CallbacksAreQueued /\ OkMeansCommitted /\ ErrorsJustified /\ NothingLost
    BY DEF CallbacksAreQueued, OkMeansCommitted, ErrorsJustified, ErrorMeansRejected,
           NothingLost
  <2> QED
    BY <2>2, <2>3 DEF StoreInv
<1>3. StreamInv
  <2>1. PipelineIsQueueHead
    <3>1. Min({0, MaxPendingWrites}) = 0
      BY MinOfPair, ConstantsAssumption
    <3>2. mutationQueue[currentUser] = <<>> /\ Len(mutationQueue[currentUser]) = 0
      OBVIOUS
    <3>3. SubSeq(mutationQueue[currentUser], 1, 0) = <<>>
      BY SubSeqEmpty
    <3> QED
      BY <3>1, <3>2, <3>3 DEF PipelineIsQueueHead
  <2>2. PendingMeansStarted /\ StreamConsistent /\ ResponsesMatchPipeline
        /\ AnswersJustified
    BY DEF PendingMeansStarted, StreamConsistent, ResponsesMatchPipeline,
           AnswersJustified, IsStarted
  <2> QED
    BY <2>1, <2>2 DEF StreamInv
<1> QED
  BY <1>1, <1>2, <1>3 DEF Inv

\* Every step of the client, the user, the environment and the backend preserves
\* the inductive invariant: one case per action.
LEMMA NextKeepsInv ==
    ASSUME Inv, [Next]_vars
    PROVE  Inv'
<1>1. CASE Client
  BY <1>1, ResumeStartKeepsInv, BackoffElapsedKeepsInv, HandshakeCompleteKeepsInv,
     OnWriteStreamMutationResultKeepsInv, IdleTimeoutKeepsInv, OnStreamFinishKeepsInv
     DEF Client
<1>2. CASE User
  BY <1>2, WriteMutationsKeepsInv, RegisterKeepsInv DEF User
<1>3. CASE Environment
  BY <1>3, ConnectionLostKeepsInv, AuthFailureKeepsInv, DisableNetworkKeepsInv,
     EnableNetworkKeepsInv, ConnectivityChangeKeepsInv, HandleCredentialChangeKeepsInv,
     CrashKeepsInv, CrashAfterNotifyKeepsInv
     DEF Environment
<1>4. CASE Backend
  BY <1>4, AnswerHandshakeKeepsInv, RefuseHandshakeKeepsInv, CommitKeepsInv,
     RejectKeepsInv, ServeAbandonedKeepsInv
     DEF Backend
<1>5. CASE UNCHANGED vars
  BY <1>5, StutterKeepsInv
<1> QED
  BY <1>1, <1>2, <1>3, <1>4, <1>5 DEF Next

\* The inductive invariant holds in every reachable state, for any users, any
\* pipeline length and any number of writes, waiters, faults and abandoned streams.
THEOREM InvHolds == Spec => []Inv
<1>1. Init => Inv
  BY InitEstablishesInv
<1>2. Inv /\ [Next]_vars => Inv'
  BY NextKeepsInv
<1> QED
  BY <1>1, <1>2, PTL DEF Spec

\* Every variable keeps its type.
THEOREM TypeCorrect == Spec => []TypeOK
<1>1. Inv => TypeOK
  BY DEF Inv
<1> QED
  BY <1>1, InvHolds, PTL

\* FillWritePipeline keeps the pipeline the longest admissible prefix of the current
\* user's queue.
THEOREM PipelineOrdered == Spec => []PipelineIsQueueHead
<1>1. Inv => PipelineIsQueueHead
  BY DEF Inv, StreamInv
<1> QED
  BY <1>1, InvHolds, PTL

\* The head of the pipeline is the write a response or a write error is about:
\* OnWriteStreamMutationResult and HandleWriteError blame the right batch.
THEOREM AnswersCorrelate == Spec => []ResponsesMatchPipeline
<1>1. Inv => ResponsesMatchPipeline
  BY DEF Inv, StreamInv
<1> QED
  BY <1>1, InvHolds, PTL

\* NotifyUser reports OK only for a write the backend has committed.
THEOREM OkIsTrue == Spec => []OkMeansCommitted
<1>1. Inv => OkMeansCommitted
  BY DEF Inv, StoreInv
<1> QED
  BY <1>1, InvHolds, PTL

\* When no status overtakes a response, NotifyUser reports an error only for a
\* write the backend has refused.
THEOREM ErrorIsTrue ==
    ASSUME ~ LossyFinish
    PROVE  Spec => []ErrorMeansRejected
<1>1. Inv => ErrorMeansRejected
  BY DEF Inv, StoreInv, ErrorsJustified
<1> QED
  BY <1>1, InvHolds, PTL

\* No write leaves its user's durable queue before the backend has decided it.
THEOREM WritesSurvive == Spec => []NothingLost
<1>1. Inv => NothingLost
  BY DEF Inv, StoreInv
<1> QED
  BY <1>1, InvHolds, PTL

\* LoadNextBatchId and WriteMutations keep batch ids growing along every queue.
THEOREM IdsGrow == Spec => []BatchIdsGrow
<1>1. Inv => BatchIdsGrow
  BY DEF Inv, StoreInv
<1> QED
  BY <1>1, InvHolds, PTL

\* A registered write callback belongs to a batch that is still queued under its id.
THEOREM CallbacksQueued == Spec => []CallbacksAreQueued
<1>1. Inv => CallbacksAreQueued
  BY DEF Inv, StoreInv
<1> QED
  BY <1>1, InvHolds, PTL

\* No error path, refill or restart leaves a pipeline with work without a stream.
THEOREM StreamWhenNeeded == Spec => []PendingMeansStarted
<1>1. Inv => PendingMeansStarted
  BY DEF Inv, StreamInv
<1> QED
  BY <1>1, InvHolds, PTL

\* The idle timer never stops a stream that is still needed.
THEOREM IdleOnlyWhenDrained == Spec => []IdleMeansDrained
<1>1. Inv => IdleMeansDrained
  <2>1. StreamConsistent => IdleMeansDrained
    <3>1. SUFFICES ASSUME StreamConsistent, idleTimer
                   PROVE  streamState = "Open" /\ writePipeline = <<>>
      BY DEF IdleMeansDrained
    <3>2. handshake = "complete" /\ writePipeline = <<>>
      BY <3>1, Zenon DEF StreamConsistent
    <3>3. handshake # "none"
      BY <3>2
    <3> QED
      BY <3>1, <3>2, <3>3, Zenon DEF StreamConsistent
  <2> QED
    BY <2>1 DEF Inv, StreamInv
<1> QED
  BY <1>1, InvHolds, PTL
=============================================================================
