------------------------ MODULE StreamLifecycleProofs ------------------------
(***************************************************************************)
(* Proofs about the life of a stream, for any number of closes, any number *)
(* of buffered writes and any cap of the backoff.                          *)
(*                                                                         *)
(* Two arguments carry them.  Every request for a token and every token is *)
(* marked with a close count that is at most the present one, so a close   *)
(* makes all of them stale at once.  And what the worker queue holds of    *)
(* completions that are not cancelled are completions of the present call  *)
(* that it still counts, one of each type at most: a call that is torn     *)
(* down leaves none.                                                       *)
(***************************************************************************)
EXTENDS StreamLifecycle, FiniteSetTheorems, TLAPS

USE StreamAssumption

-----------------------------------------------------------------------------
(* The inductive invariant. *)

Connections == [grpc : Calls, queue : Seq(Operations), ok : BOOLEAN]

\* Operation i of q is a completion that still has its callback.
Live(q, i) == q[i].kind = "completion" /\ ~ q[i].cancelled

\* The live completions on q are completions of the call g, one of each type at most;
\* a finish has not failed.
LiveMatches(g, q) ==
    /\ \A i \in DOMAIN q : Live(q, i) =>
          /\ q[i].call = g.call
          /\ q[i].type \in g.completions
          /\ q[i].type = "Finish" => q[i].ok
    /\ \A i, j \in DOMAIN q : Live(q, i) /\ Live(q, j) /\ q[i].type = q[j].type => i = j

\* A connection on which no assertion has failed and none is about to.
ConnectionOK(c) ==
    /\ c.ok
    /\ LiveMatches(c.grpc, c.queue)
    /\ "Write" \in c.grpc.completions => c.grpc.activeWrite

\* The tokens on q for the close count n.
TokensFor(q, n) == {i \in DOMAIN q : q[i].kind = "token" /\ q[i].count = n}

\* No token on q was asked for after the close count n.
TokensUpTo(q, n) == \A i \in DOMAIN q : q[i].kind = "token" => q[i].count <= n

RequestsFor(n) == {r \in credentials : r.count = n}

\* A starting stream waits for one request or for one token, any other for none.
TokenInv ==
    IF state = "Starting"
    THEN \/ (\E r : RequestsFor(closeCount) = {r}) /\ TokensFor(queue, closeCount) = {}
         \/ RequestsFor(closeCount) = {} /\ \E i : TokensFor(queue, closeCount) = {i}
    ELSE RequestsFor(closeCount) = {} /\ TokensFor(queue, closeCount) = {}

\* Where the next delay stands against the errors in a row: in Error the last one is
\* not accounted for yet.
BackoffInv ==
    /\ state = "Error" => base >= failures - 1 \/ base = MaxBase
    /\ state # "Error" => base >= failures \/ base = MaxBase
    /\ timers.backoff => delay >= failures - 1 \/ delay = MaxBase
    /\ timers.backoff <=> state = "Backoff"

\* A stream that is not open has no call.
CallInv ==
    /\ IsOpen <=> grpc.observer
    /\ ~ IsOpen => grpc = NoCall
    /\ IsOpen => grpc.call = closeCount /\ grpc.completions \cap {"Read", "Finish"} # {}
    /\ grpc.finished /\ grpc.observer => "Finish" \in grpc.completions

Inv ==
    /\ TypeOK
    /\ ConnectionOK(Connection)
    /\ TokensUpTo(queue, closeCount)
    /\ \A r \in credentials : r.count <= closeCount
    /\ TokenInv
    /\ BackoffInv
    /\ CallInv

-----------------------------------------------------------------------------
(* GrpcStream: what its methods do to a sound connection. *)

\* The queue p has the tokens of q, at the same places.
SameTokens(p, q) ==
    /\ DOMAIN p = DOMAIN q
    /\ \A i \in DOMAIN q : (p[i].kind = "token" <=> q[i].kind = "token")
    /\ \A i \in DOMAIN q : q[i].kind = "token" => p[i].count = q[i].count

LEMMA SameTokensTransitive ==
  ASSUME NEW p, NEW q, NEW s, SameTokens(p, q), SameTokens(q, s)
  PROVE  SameTokens(p, s)
BY DEF SameTokens

LEMMA NewCompletionKeeps ==
  ASSUME NEW c \in Connections, ConnectionOK(c), NEW type \in Types,
         type \notin c.grpc.completions, type = "Write" => c.grpc.activeWrite
  PROVE  LET n == NewCompletion(c, type)
         IN  /\ n \in Connections /\ ConnectionOK(n) /\ n.queue = c.queue
             /\ n.grpc.completions = c.grpc.completions \cup {type}
             /\ n.grpc.call = c.grpc.call /\ n.grpc.observer = c.grpc.observer
             /\ n.grpc.finished = c.grpc.finished
<1> DEFINE n == NewCompletion(c, type)
<1>1. /\ n.queue = c.queue /\ n.ok = c.ok
      /\ n.grpc.completions = c.grpc.completions \cup {type}
      /\ n.grpc.call = c.grpc.call /\ n.grpc.observer = c.grpc.observer
      /\ n.grpc.finished = c.grpc.finished /\ n.grpc.activeWrite = c.grpc.activeWrite
  BY DEF NewCompletion, Connections, Calls
<1>2. n \in Connections
  BY DEF NewCompletion, Connections, Calls
<1>3. ConnectionOK(n)
  BY <1>1 DEF ConnectionOK, LiveMatches
<1> QED
  BY <1>1, <1>2, <1>3

\* After FastFinishCompletionsBlocking no completion is left, with gRPC or live.
LEMMA FastFinishKeeps ==
  ASSUME NEW c \in Connections, ConnectionOK(c)
  PROVE  LET n == FastFinishCompletionsBlocking(c)
         IN  /\ n \in Connections /\ ConnectionOK(n) /\ SameTokens(n.queue, c.queue)
             /\ n.grpc.completions = {}
             /\ n.grpc.call = c.grpc.call /\ n.grpc.observer = c.grpc.observer
             /\ n.grpc.finished = c.grpc.finished
<1> DEFINE n == FastFinishCompletionsBlocking(c)
           q == c.queue
           Hit(i) == q[i].kind = "completion" /\ q[i].call = c.grpc.call
           p == [i \in DOMAIN q |-> IF Hit(i) THEN [q[i] EXCEPT !.cancelled = TRUE] ELSE q[i]]
<1>1. /\ n.queue = p /\ n.ok = c.ok /\ n.grpc = [c.grpc EXCEPT !.completions = {}]
      /\ n = [grpc |-> n.grpc, queue |-> p, ok |-> c.ok]
  <2>1. n = [c EXCEPT !.grpc.completions = {}, !.queue = p]
    BY DEF FastFinishCompletionsBlocking
  <2> HIDE DEF p, n
  <2> QED
    BY <2>1 DEF Connections
<1>2. n.grpc \in Calls /\ n.grpc.completions = {}
      /\ n.grpc.call = c.grpc.call /\ n.grpc.observer = c.grpc.observer
      /\ n.grpc.finished = c.grpc.finished
  BY <1>1 DEF Connections, Calls
<1>3. q \in Seq(Operations) /\ DOMAIN p = DOMAIN q /\ DOMAIN q = 1..Len(q)
  BY DEF Connections
<1>4. ASSUME NEW i \in DOMAIN q
      PROVE  /\ p[i] \in Operations
             /\ p[i].kind = q[i].kind
             /\ q[i].kind = "token" => p[i] = q[i]
             /\ ~ Live(p, i)
  <2>1. q[i] \in Operations
    BY <1>3
  <2>2. CASE Hit(i)
    <3>1. p[i] = [q[i] EXCEPT !.cancelled = TRUE]
      BY <2>2
    <3>2. q[i] \in [kind : {"completion"}, call : Nat, type : Types, ok : BOOLEAN,
                    cancelled : BOOLEAN]
      BY <2>1, <2>2 DEF Operations
    <3>3. p[i].kind = "completion" /\ p[i].cancelled = TRUE
      BY <3>1, <3>2
    <3> QED
      BY <2>2, <3>1, <3>2, <3>3 DEF Operations, Live
  <2>3. CASE ~ Hit(i)
    <3>1. p[i] = q[i]
      BY <2>3
    <3>2. Live(q, i) => Hit(i)
      BY DEF ConnectionOK, LiveMatches, Live
    <3> QED
      BY <2>1, <2>3, <3>1, <3>2 DEF Live
  <2> QED
    BY <2>2, <2>3
<1> HIDE DEF p
<1>5. p \in Seq(Operations)
  <2>1. p \in [1..Len(q) -> Operations]
    BY <1>3, <1>4 DEF p
  <2> QED
    BY <1>3, <2>1
<1>6. n \in Connections
  BY <1>1, <1>2, <1>5 DEF Connections
<1>7. SameTokens(n.queue, c.queue)
  BY <1>1, <1>3, <1>4 DEF SameTokens
<1>8. ConnectionOK(n)
  BY <1>1, <1>2, <1>3, <1>4 DEF ConnectionOK, LiveMatches
<1> QED
  BY <1>2, <1>6, <1>7, <1>8

LEMMA FinishGrpcCallKeeps ==
  ASSUME NEW c \in Connections, ConnectionOK(c), ~ c.grpc.finished
  PROVE  LET n == FinishGrpcCall(c)
         IN  /\ n \in Connections /\ ConnectionOK(n) /\ SameTokens(n.queue, c.queue)
             /\ n.grpc.completions = {"Finish"}
             /\ n.grpc.call = c.grpc.call /\ n.grpc.observer = c.grpc.observer
             /\ n.grpc.finished
<1> DEFINE d == [c EXCEPT !.grpc.finished = TRUE, !.ok = @ /\ ~ c.grpc.finished]
           e == FastFinishCompletionsBlocking(d)
<1>1. /\ d \in Connections /\ d.queue = c.queue /\ d.ok = c.ok
      /\ d.grpc.call = c.grpc.call /\ d.grpc.observer = c.grpc.observer
      /\ d.grpc.completions = c.grpc.completions
      /\ d.grpc.activeWrite = c.grpc.activeWrite /\ d.grpc.finished
  BY DEF Connections, Calls
<1>2. ConnectionOK(d)
  BY <1>1 DEF ConnectionOK, LiveMatches
<1>3. FinishGrpcCall(c) = NewCompletion(e, "Finish")
  BY DEF FinishGrpcCall
<1> HIDE DEF d
<1>4. /\ e \in Connections /\ ConnectionOK(e) /\ SameTokens(e.queue, c.queue)
      /\ e.grpc.completions = {}
      /\ e.grpc.call = c.grpc.call /\ e.grpc.observer = c.grpc.observer
      /\ e.grpc.finished
  BY <1>1, <1>2, FastFinishKeeps
<1> HIDE DEF e
<1>5. "Finish" \in Types
  BY DEF Types
<1> QED
  BY <1>3, <1>4, <1>5, NewCompletionKeeps

LEMMA FinishImmediatelyKeeps ==
  ASSUME NEW c \in Connections, ConnectionOK(c)
  PROVE  LET n == FinishImmediately(c)
         IN  /\ n \in Connections /\ ConnectionOK(n) /\ SameTokens(n.queue, c.queue)
             /\ n.grpc.completions = {}
<1> DEFINE d == IF c.grpc.completions # {} /\ ~ c.grpc.finished THEN FinishGrpcCall(c) ELSE c
           e == FastFinishCompletionsBlocking(d)
<1>1. d \in Connections /\ ConnectionOK(d) /\ SameTokens(d.queue, c.queue)
  <2>1. SameTokens(c.queue, c.queue)
    BY DEF SameTokens
  <2> QED
    BY <2>1, FinishGrpcCallKeeps
<1>2. Shutdown(c) = e
  BY DEF Shutdown
<1> HIDE DEF d
<1>3. /\ e \in Connections /\ ConnectionOK(e) /\ SameTokens(e.queue, c.queue)
      /\ e.grpc.completions = {}
  BY <1>1, FastFinishKeeps, SameTokensTransitive
<1> HIDE DEF e
<1> DEFINE n == [e EXCEPT !.grpc.observer = FALSE]
<1>4. /\ n \in Connections /\ n.queue = e.queue /\ n.ok = e.ok
      /\ n.grpc.call = e.grpc.call /\ n.grpc.completions = e.grpc.completions
      /\ n.grpc.activeWrite = e.grpc.activeWrite
  BY <1>3 DEF Connections, Calls
<1>5. ConnectionOK(n)
  BY <1>3, <1>4 DEF ConnectionOK, LiveMatches
<1> HIDE DEF n
<1> QED
  BY <1>2, <1>3, <1>4, <1>5 DEF FinishImmediately, n

\* A write is started only when none is active.
LEMMA TryStartWriteKeeps ==
  ASSUME NEW c \in Connections, ConnectionOK(c)
  PROVE  LET n == TryStartWrite(c)
         IN  /\ n \in Connections /\ ConnectionOK(n) /\ n.queue = c.queue
             /\ c.grpc.completions \subseteq n.grpc.completions
             /\ n.grpc.call = c.grpc.call /\ n.grpc.observer = c.grpc.observer
             /\ n.grpc.finished = c.grpc.finished
<1>1. CASE c.grpc.buffered = 0 \/ c.grpc.activeWrite
  BY <1>1 DEF TryStartWrite
<1>2. CASE ~ (c.grpc.buffered = 0 \/ c.grpc.activeWrite)
  <2> DEFINE d == [c EXCEPT !.grpc.activeWrite = TRUE, !.grpc.buffered = @ - 1]
  <2>1. c.grpc.buffered - 1 \in Nat
    BY <1>2 DEF Connections, Calls
  <2>2. /\ d \in Connections /\ d.queue = c.queue /\ d.ok = c.ok
        /\ d.grpc.call = c.grpc.call /\ d.grpc.observer = c.grpc.observer
        /\ d.grpc.completions = c.grpc.completions
        /\ d.grpc.finished = c.grpc.finished /\ d.grpc.activeWrite
    BY <2>1 DEF Connections, Calls
  <2>3. ConnectionOK(d) /\ "Write" \notin d.grpc.completions
    BY <1>2, <2>2 DEF ConnectionOK, LiveMatches
  <2>4. TryStartWrite(c) = NewCompletion(d, "Write") /\ "Write" \in Types
    BY <1>2 DEF TryStartWrite, Types
  <2> HIDE DEF d
  <2> QED
    BY <2>2, <2>3, <2>4, NewCompletionKeeps
<1> QED
  BY <1>1, <1>2

LEMMA EnqueueWriteKeeps ==
  ASSUME NEW c \in Connections, ConnectionOK(c)
  PROVE  LET n == EnqueueWrite(c)
         IN  /\ n \in Connections /\ ConnectionOK(n) /\ n.queue = c.queue
             /\ c.grpc.completions \subseteq n.grpc.completions
             /\ n.grpc.call = c.grpc.call /\ n.grpc.observer = c.grpc.observer
             /\ n.grpc.finished = c.grpc.finished
<1> DEFINE d == [c EXCEPT !.grpc.buffered = @ + 1]
<1>0. c.grpc.buffered + 1 \in Nat
  BY DEF Connections, Calls
<1>1. /\ d \in Connections /\ d.queue = c.queue /\ d.ok = c.ok
      /\ d.grpc.call = c.grpc.call /\ d.grpc.observer = c.grpc.observer
      /\ d.grpc.completions = c.grpc.completions
      /\ d.grpc.finished = c.grpc.finished /\ d.grpc.activeWrite = c.grpc.activeWrite
  BY <1>0 DEF Connections, Calls
<1>2. ConnectionOK(d)
  BY <1>1 DEF ConnectionOK, LiveMatches
<1>3. EnqueueWrite(c) = TryStartWrite(d)
  BY DEF EnqueueWrite
<1> HIDE DEF d
<1> QED
  BY <1>1, <1>2, <1>3, TryStartWriteKeeps

\* The write that was active has ended.
LEMMA DequeueNextWriteKeeps ==
  ASSUME NEW c \in Connections, ConnectionOK(c), "Write" \notin c.grpc.completions
  PROVE  LET n == DequeueNextWrite(c)
         IN  /\ n \in Connections /\ ConnectionOK(n) /\ n.queue = c.queue
             /\ c.grpc.completions \subseteq n.grpc.completions
             /\ n.grpc.call = c.grpc.call /\ n.grpc.observer = c.grpc.observer
             /\ n.grpc.finished = c.grpc.finished
<1> DEFINE d == [c EXCEPT !.grpc.activeWrite = FALSE]
<1>1. /\ d \in Connections /\ d.queue = c.queue /\ d.ok = c.ok
      /\ d.grpc.call = c.grpc.call /\ d.grpc.observer = c.grpc.observer
      /\ d.grpc.completions = c.grpc.completions
      /\ d.grpc.finished = c.grpc.finished
  BY DEF Connections, Calls
<1>2. ConnectionOK(d)
  BY <1>1 DEF ConnectionOK, LiveMatches
<1>3. DequeueNextWrite(c) = TryStartWrite(d)
  BY DEF DequeueNextWrite
<1> HIDE DEF d
<1> QED
  BY <1>1, <1>2, <1>3, TryStartWriteKeeps

LEMMA WriteAndFinishKeeps ==
  ASSUME NEW c \in Connections, ConnectionOK(c)
  PROVE  LET n == WriteAndFinish(c)
         IN  /\ n \in Connections /\ ConnectionOK(n) /\ SameTokens(n.queue, c.queue)
             /\ n.grpc.completions = {}
<1> DEFINE d == IF c.grpc.finished THEN c ELSE EnqueueWrite(c)
<1>1. d \in Connections /\ ConnectionOK(d) /\ d.queue = c.queue
  BY EnqueueWriteKeeps
<1>2. WriteAndFinish(c) = FinishImmediately(d)
  BY DEF WriteAndFinish
<1> HIDE DEF d
<1> QED
  BY <1>1, <1>2, FinishImmediatelyKeeps

-----------------------------------------------------------------------------
(* Tokens on the worker queue. *)

LEMMA SameTokensFor ==
  ASSUME NEW p, NEW q, SameTokens(p, q), NEW n
  PROVE  TokensFor(p, n) = TokensFor(q, n) /\ (TokensUpTo(q, n) => TokensUpTo(p, n))
BY DEF SameTokens, TokensFor, TokensUpTo

\* Taking the head off moves the tokens forward and loses one only if it is the head.
LEMMA TailTokens ==
  ASSUME NEW q \in Seq(Operations), q # <<>>, NEW n \in Nat
  PROVE  /\ \A j \in Nat : j \in TokensFor(Tail(q), n) <=> j # 0 /\ j + 1 \in TokensFor(q, n)
         /\ TokensFor(Tail(q), n) \subseteq Nat
         /\ TokensFor(q, n) \subseteq Nat \ {0}
         /\ 1 \in TokensFor(q, n) <=> Head(q).kind = "token" /\ Head(q).count = n
         /\ TokensUpTo(q, n) => TokensUpTo(Tail(q), n)
<1>1. /\ Tail(q) \in Seq(Operations) /\ Len(Tail(q)) = Len(q) - 1 /\ Len(q) \in Nat \ {0}
      /\ \A j \in 1..Len(Tail(q)) : Tail(q)[j] = q[j + 1]
      /\ Head(q) = q[1]
      /\ DOMAIN q = 1..Len(q) /\ DOMAIN Tail(q) = 1..Len(Tail(q))
  OBVIOUS
<1>2. TokensFor(q, n) \subseteq Nat \ {0} /\ TokensFor(Tail(q), n) \subseteq Nat
  BY <1>1 DEF TokensFor
<1>3. \A j \in Nat : j \in TokensFor(Tail(q), n) <=> j # 0 /\ j + 1 \in TokensFor(q, n)
  <2> HIDE DEF Operations
  <2> TAKE j \in Nat
  <2>1. j \in DOMAIN Tail(q) <=> j # 0 /\ j + 1 \in DOMAIN q
    BY <1>1
  <2>2. CASE j \in DOMAIN Tail(q)
    <3>1. Tail(q)[j] = q[j + 1]
      BY <1>1, <2>2
    <3> QED
      BY <2>1, <2>2, <3>1 DEF TokensFor
  <2>3. CASE j \notin DOMAIN Tail(q)
    BY <2>1, <2>3 DEF TokensFor
  <2> QED
    BY <2>2, <2>3
<1>4. 1 \in TokensFor(q, n) <=> Head(q).kind = "token" /\ Head(q).count = n
  BY <1>1 DEF TokensFor
<1>5. TokensUpTo(q, n) => TokensUpTo(Tail(q), n)
  <2> SUFFICES ASSUME TokensUpTo(q, n), NEW j \in DOMAIN Tail(q), Tail(q)[j].kind = "token"
               PROVE  Tail(q)[j].count <= n
    BY DEF TokensUpTo
  <2>1. Tail(q)[j] = q[j + 1] /\ j + 1 \in DOMAIN q
    BY <1>1
  <2> QED
    BY <2>1 DEF TokensUpTo
<1> QED
  BY <1>2, <1>3, <1>4, <1>5

\* So one token stays one, unless it is the head.
LEMMA TailKeepsTokens ==
  ASSUME NEW q \in Seq(Operations), q # <<>>, NEW n \in Nat
  PROVE  /\ TokensFor(q, n) = {} => TokensFor(Tail(q), n) = {}
         /\ (\E i : TokensFor(q, n) = {i}) =>
               IF Head(q).kind = "token" /\ Head(q).count = n
               THEN TokensFor(Tail(q), n) = {}
               ELSE \E k : TokensFor(Tail(q), n) = {k}
<1>1. TokensFor(q, n) = {} => TokensFor(Tail(q), n) = {}
  BY TailTokens
<1>2. ASSUME NEW i, TokensFor(q, n) = {i}, ~ (Head(q).kind = "token" /\ Head(q).count = n)
      PROVE  \E k : TokensFor(Tail(q), n) = {k}
  <2>1. i \in Nat \ {0} /\ i # 1
    BY <1>2, TailTokens
  <2>2. i - 1 \in Nat /\ i - 1 # 0 /\ (i - 1) + 1 = i
    BY <2>1
  <2>3. i - 1 \in TokensFor(Tail(q), n)
    BY <1>2, <2>2, TailTokens
  <2>4. \A j \in TokensFor(Tail(q), n) : j = i - 1
    <3> TAKE j \in TokensFor(Tail(q), n)
    <3>1. j \in Nat /\ j + 1 \in TokensFor(q, n)
      BY TailTokens
    <3> QED
      BY <1>2, <2>1, <3>1
  <2> QED
    BY <2>3, <2>4
<1>3. ASSUME NEW i, TokensFor(q, n) = {i}, Head(q).kind = "token", Head(q).count = n
      PROVE  TokensFor(Tail(q), n) = {}
  <2>1. i = 1
    BY <1>3, TailTokens
  <2>2. ASSUME NEW j \in TokensFor(Tail(q), n) PROVE FALSE
    <3>1. j \in Nat /\ j # 0 /\ j + 1 \in TokensFor(q, n)
      BY TailTokens
    <3> QED
      BY <1>3, <2>1, <3>1
  <2> QED
    BY <2>2
<1> QED
  BY <1>1, <1>2, <1>3

\* A step that makes no request and takes no token of now off the queue.
LEMMA TokenInvKept ==
  ASSUME Inv, closeCount' = closeCount, credentials' = credentials,
         state' = "Starting" <=> state = "Starting",
         \/ SameTokens(queue', queue)
         \/ /\ queue # <<>>
            /\ ~ (Head(queue).kind = "token" /\ Head(queue).count = closeCount)
            /\ SameTokens(queue', Tail(queue))
  PROVE  TokenInv' /\ TokensUpTo(queue', closeCount')
<1> DEFINE n == closeCount
<1>1. queue \in Seq(Operations) /\ n \in Nat /\ TokenInv /\ TokensUpTo(queue, n)
  BY DEF Inv, TypeOK
<1>2. /\ TokensUpTo(queue', n)
      /\ TokensFor(queue, n) = {} => TokensFor(queue', n) = {}
      /\ (\E i : TokensFor(queue, n) = {i}) => \E i : TokensFor(queue', n) = {i}
  <2>1. CASE SameTokens(queue', queue)
    <3>1. TokensFor(queue', n) = TokensFor(queue, n) /\ TokensUpTo(queue', n)
      BY <1>1, <2>1, SameTokensFor
    <3> QED
      BY <3>1
  <2>2. CASE /\ queue # <<>>
             /\ ~ (Head(queue).kind = "token" /\ Head(queue).count = n)
             /\ SameTokens(queue', Tail(queue))
    <3>1. TokensUpTo(Tail(queue), n)
      BY <1>1, <2>2, TailTokens
    <3>2. TokensFor(queue', n) = TokensFor(Tail(queue), n) /\ TokensUpTo(queue', n)
      BY <2>2, <3>1, SameTokensFor
    <3>3. /\ TokensFor(queue, n) = {} => TokensFor(Tail(queue), n) = {}
          /\ (\E i : TokensFor(queue, n) = {i}) => \E i : TokensFor(Tail(queue), n) = {i}
      BY <1>1, <2>2, TailKeepsTokens, Zenon
    <3> QED
      BY <3>2, <3>3
  <2> QED
    BY <2>1, <2>2
<1>3. RequestsFor(n)' = RequestsFor(n)
  BY DEF RequestsFor
<1> QED
  BY <1>1, <1>2, <1>3 DEF TokenInv

-----------------------------------------------------------------------------
(* The steps. *)

\* The part of TypeOK that is not about the connection.
StreamTypeOK ==
    /\ state \in States
    /\ closeCount \in Nat
    /\ timers \in [backoff : BOOLEAN, idle : BOOLEAN, health : BOOLEAN]
    /\ base \in 0..MaxBase
    /\ delay \in 0..MaxBase
    /\ credentials \subseteq [count : Nat, auth : {"none", "ok", "error"}, appCheck : BOOLEAN]
    /\ failures \in Nat
    /\ handshake \in Handshakes

\* What the invariant gives, as parts.
LEMMA InvParts ==
  ASSUME Inv
  PROVE  /\ StreamTypeOK /\ Connection \in Connections /\ ConnectionOK(Connection)
         /\ TokensUpTo(queue, closeCount) /\ \A r \in credentials : r.count <= closeCount
         /\ TokenInv /\ BackoffInv /\ CallInv
         /\ queue \in Seq(Operations) /\ grpc \in Calls /\ ok = TRUE
         /\ LiveMatches(grpc, queue)
BY DEF Inv, TypeOK, StreamTypeOK, Connection, Connections, ConnectionOK

\* The invariant from its parts.
LEMMA InvFromParts ==
  ASSUME StreamTypeOK', NEW c \in Connections, ConnectionOK(c), Connect(c),
         TokensUpTo(queue', closeCount'), \A r \in credentials' : r.count <= closeCount',
         TokenInv', BackoffInv', CallInv'
  PROVE  Inv'
<1>1. grpc' = c.grpc /\ queue' = c.queue /\ ok' = c.ok
  BY DEF Connect
<1>2. TypeOK'
  BY <1>1 DEF TypeOK, StreamTypeOK, Connections
<1>3. Connection' = c
  BY <1>1 DEF Connection, Connections
<1> QED
  BY <1>2, <1>3 DEF Inv

LEMMA NoCallTyped == NoCall \in Calls /\ NoCall.completions = {} /\ ~ NoCall.observer
BY DEF NoCall, Calls

\* A close ends the call without a completion left, and makes every request and every
\* token stale.
LEMMA CloseStep ==
  ASSUME Inv, IsStarted, NEW c \in Connections, ConnectionOK(c),
         TokensUpTo(c.queue, closeCount),
         NEW status \in {"ok", "error", "exhausted"},
         status # "ok" \/ c.grpc = NoCall => c.grpc.completions = {},
         NEW errors \in {Errors, NoErrors}, Close(c, errors, status)
  PROVE  Inv'
<1> DEFINE torn == IF status = "ok" /\ c.grpc # NoCall THEN TearDown(c) ELSE c
<1>1. Connect([Destroy(torn) EXCEPT !.ok = @ /\ IsStarted])
  BY DEF Close
<1>2. /\ torn \in Connections /\ ConnectionOK(torn) /\ SameTokens(torn.queue, c.queue)
      /\ torn.grpc.completions = {}
  <2>1. CASE status = "ok" /\ c.grpc # NoCall
    BY <2>1, FinishImmediatelyKeeps, WriteAndFinishKeeps DEF TearDown
  <2>2. CASE ~ (status = "ok" /\ c.grpc # NoCall)
    BY <2>2 DEF SameTokens
  <2> QED
    BY <2>1, <2>2
<1> HIDE DEF torn
<1> DEFINE gone == [grpc |-> NoCall, queue |-> torn.queue, ok |-> TRUE]
<1>3. Connect(gone)
  BY <1>1, <1>2 DEF Destroy, Connections, ConnectionOK, Connect
<1>4. gone \in Connections
  BY <1>2, NoCallTyped DEF Connections
<1>5. ConnectionOK(gone)
  BY <1>2, NoCallTyped DEF ConnectionOK, LiveMatches
<1>6. StreamTypeOK /\ BackoffInv /\ \A r \in credentials : r.count <= closeCount
  BY InvParts
<1>7. /\ closeCount' = closeCount + 1 /\ timers' = NoTimers /\ UNCHANGED <<delay, credentials>>
      /\ status = "ok" => base' = 0 /\ failures' = 0 /\ state' = "Initial"
      /\ status # "ok" => base' \in {errors.base, MaxBase} /\ failures' = errors.failures + 1
                          /\ state' = "Error"
      /\ handshake' \in {"none", "awaited"}
  BY DEF Close
<1>8. StreamTypeOK'
  <2>1. timers' \in [backoff : BOOLEAN, idle : BOOLEAN, health : BOOLEAN]
    BY <1>7 DEF NoTimers
  <2>2. errors.base \in 0..MaxBase /\ errors.failures \in Nat
    BY <1>6 DEF StreamTypeOK, Errors, NoErrors
  <2>3. state' \in States /\ base' \in 0..MaxBase /\ failures' \in Nat /\ handshake' \in Handshakes
    BY <1>6, <1>7, <2>2 DEF StreamTypeOK, States, Handshakes
  <2> QED
    BY <1>6, <1>7, <2>1, <2>3 DEF StreamTypeOK
<1>9. BackoffInv'
  <2>1. state # "Error" /\ timers' = [backoff |-> FALSE, idle |-> FALSE, health |-> FALSE]
    BY <1>7 DEF IsStarted, IsOpen, NoTimers
  <2>2. errors.base >= errors.failures \/ errors.base = MaxBase
    BY <1>6, <2>1 DEF BackoffInv, Errors, NoErrors
  <2>3. errors.base \in Nat /\ errors.failures \in Nat /\ MaxBase \in Nat
    BY <1>6 DEF StreamTypeOK, Errors, NoErrors
  <2>4. CASE status = "ok"
    BY <1>7, <2>1, <2>3, <2>4 DEF BackoffInv
  <2>5. CASE status # "ok"
    BY <1>7, <2>1, <2>2, <2>3, <2>5 DEF BackoffInv
  <2> QED
    BY <2>4, <2>5
<1>10. TokensUpTo(torn.queue, closeCount)
  BY <1>2, SameTokensFor
<1>11. queue' = torn.queue /\ torn.queue \in Seq(Operations) /\ closeCount \in Nat
  BY <1>2, <1>3, <1>6 DEF Connect, Connections, StreamTypeOK
<1>12. ASSUME NEW i \in DOMAIN torn.queue, torn.queue[i].kind = "token"
       PROVE  torn.queue[i].count \in Nat
  <2>1. torn.queue[i] \in Operations
    BY <1>11
  <2> QED
    BY <1>12, <2>1 DEF Operations
<1>13. TokensUpTo(queue', closeCount') /\ TokensFor(queue', closeCount') = {}
  BY <1>7, <1>10, <1>11, <1>12 DEF TokensUpTo, TokensFor
<1>14. (\A r \in credentials' : r.count <= closeCount') /\ RequestsFor(closeCount)' = {}
  BY <1>6, <1>7, <1>11 DEF RequestsFor, StreamTypeOK
<1>15. TokenInv'
  BY <1>7, <1>13, <1>14 DEF TokenInv
<1>16. CallInv'
  BY <1>3, <1>7, NoCallTyped DEF CallInv, IsOpen, Connect
<1> HIDE DEF gone
<1> QED
  BY <1>3, <1>4, <1>5, <1>8, <1>9, <1>13, <1>14, <1>15, <1>16, InvFromParts

\* Taking an operation off the queue keeps the connection sound.
LEMMA DequeuedKeeps ==
  ASSUME Inv, queue # <<>>
  PROVE  /\ Dequeued \in Connections /\ Dequeued.queue = Tail(queue)
         /\ Dequeued.grpc = grpc /\ Dequeued.ok = TRUE
         /\ ConnectionOK(Dequeued)
         /\ TokensUpTo(Tail(queue), closeCount)
<1>1. /\ Connection \in Connections /\ ConnectionOK(Connection) /\ queue \in Seq(Operations)
      /\ LiveMatches(grpc, queue) /\ closeCount \in Nat /\ ok = TRUE
      /\ TokensUpTo(queue, closeCount)
  BY InvParts DEF StreamTypeOK
<1>2. /\ Tail(queue) \in Seq(Operations) /\ Len(Tail(queue)) = Len(queue) - 1
      /\ Len(queue) \in Nat \ {0}
      /\ \A j \in 1..Len(Tail(queue)) : Tail(queue)[j] = queue[j + 1]
      /\ DOMAIN queue = 1..Len(queue) /\ DOMAIN Tail(queue) = 1..Len(Tail(queue))
  BY <1>1
<1>3. /\ Dequeued \in Connections /\ Dequeued.queue = Tail(queue)
      /\ Dequeued.grpc = grpc /\ Dequeued.ok = TRUE
  BY <1>1, <1>2 DEF Dequeued, Connection, Connections
<1>4. LiveMatches(grpc, Tail(queue))
  <2>1. ASSUME NEW j \in DOMAIN Tail(queue)
        PROVE  j + 1 \in DOMAIN queue /\ Tail(queue)[j] = queue[j + 1] /\ j \in Nat
               /\ (Live(Tail(queue), j) <=> Live(queue, j + 1))
    BY <1>2 DEF Live
  <2> QED
    BY <1>1, <2>1 DEF LiveMatches
<1>5. ConnectionOK(Dequeued)
  BY <1>1, <1>3, <1>4 DEF ConnectionOK, Connection
<1>6. TokensUpTo(Tail(queue), closeCount)
  BY <1>1, TailTokens
<1> QED
  BY <1>3, <1>5, <1>6

\* A completion runs: it is one of the present call, which has no other of its type.
LEMMA RemovedKeeps ==
  ASSUME Inv, NEW type \in Types, NEW success \in BOOLEAN, Completed(type, success)
  PROVE  LET r == Removed(type)
         IN  /\ r \in Connections /\ ConnectionOK(r) /\ r.queue = Tail(queue)
             /\ r.grpc.completions = grpc.completions \ {type}
             /\ r.grpc.call = grpc.call /\ r.grpc.observer = grpc.observer
             /\ r.grpc.finished = grpc.finished
             /\ IsOpen /\ grpc.observer
             /\ type = "Finish" => success
<1> DEFINE r == Removed(type)
<1>1. queue # <<>> /\ queue \in Seq(Operations) /\ Head(queue) = queue[1]
      /\ Len(queue) \in Nat \ {0} /\ DOMAIN queue = 1..Len(queue) /\ 1 \in DOMAIN queue
  BY InvParts DEF Completed, NextIs
<1>2. Live(queue, 1) /\ queue[1].type = type /\ queue[1].ok = success
  BY <1>1 DEF Completed, NextIs, Live
<1>3. LiveMatches(grpc, queue) /\ CallInv /\ grpc \in Calls
  BY InvParts
<1>4. Head(queue).call = grpc.call /\ type \in grpc.completions /\ (type = "Finish" => success)
  BY <1>1, <1>2, <1>3 DEF LiveMatches
<1>5. IsOpen /\ grpc.observer
  BY <1>3, <1>4, NoCallTyped DEF CallInv
<1>6. /\ Dequeued \in Connections /\ Dequeued.queue = Tail(queue)
      /\ Dequeued.grpc = grpc /\ Dequeued.ok = TRUE
      /\ ConnectionOK(Dequeued)
  BY <1>1, DequeuedKeeps
<1>7. /\ r \in Connections /\ r.queue = Tail(queue) /\ r.ok = TRUE
      /\ r.grpc.completions = grpc.completions \ {type}
      /\ r.grpc.call = grpc.call /\ r.grpc.observer = grpc.observer
      /\ r.grpc.finished = grpc.finished /\ r.grpc.activeWrite = grpc.activeWrite
  BY <1>3, <1>4, <1>6 DEF Removed, Connections, Calls
<1>8. LiveMatches(grpc, Tail(queue)) /\ ("Write" \in grpc.completions => grpc.activeWrite)
  BY <1>6 DEF ConnectionOK
<1>9. ASSUME NEW j \in DOMAIN Tail(queue), Live(Tail(queue), j)
      PROVE  Tail(queue)[j].type # type
  <2>1. j \in Nat \ {0} /\ j + 1 \in DOMAIN queue /\ Tail(queue)[j] = queue[j + 1]
    BY <1>1
  <2>2. Live(queue, j + 1) /\ j + 1 # 1
    BY <1>9, <2>1 DEF Live
  <2> QED
    BY <1>1, <1>2, <1>3, <2>1, <2>2 DEF LiveMatches
<1>10. ConnectionOK(r)
  BY <1>7, <1>8, <1>9 DEF ConnectionOK, LiveMatches
<1> QED
  BY <1>4, <1>5, <1>7, <1>10

\* A step that neither starts nor closes the stream.
LEMMA QuietStep ==
  ASSUME Inv, closeCount' = closeCount, delay' = delay, credentials' = credentials,
         handshake' \in Handshakes,
         state' = state \/ (IsOpen /\ state' = "Healthy"),
         timers' \in [backoff : BOOLEAN, idle : BOOLEAN, health : BOOLEAN],
         timers'.backoff = timers.backoff,
         (base' = base /\ failures' = failures) \/ (base' = 0 /\ failures' = 0),
         TokenInv', TokensUpTo(queue', closeCount'),
         NEW c \in Connections, ConnectionOK(c), Connect(c),
         c.grpc.observer = grpc.observer, c.grpc.call = grpc.call,
         ~ grpc.observer => c.grpc = grpc,
         grpc.observer => c.grpc.completions \cap {"Read", "Finish"} # {},
         grpc.observer /\ c.grpc.finished => "Finish" \in c.grpc.completions
  PROVE  Inv'
<1>1. StreamTypeOK /\ BackoffInv /\ CallInv /\ \A r \in credentials : r.count <= closeCount
  BY InvParts
<1>2. StreamTypeOK'
  BY <1>1 DEF StreamTypeOK, States
<1>3. BackoffInv'
  BY <1>1 DEF StreamTypeOK, BackoffInv, IsOpen
<1>4. CallInv'
  <2>1. IsOpen' <=> IsOpen
    BY DEF IsOpen
  <2>2. grpc' = c.grpc
    BY DEF Connect
  <2> QED
    BY <1>1, <2>1, <2>2 DEF CallInv
<1> QED
  BY <1>1, <1>2, <1>3, <1>4, InvFromParts

LEMMA SameTokensReflexive == \A q : SameTokens(q, q)
BY DEF SameTokens

\* The timers and the writes of the owner.
LEMMA OwnerStep ==
  ASSUME Inv, MarkIdle \/ HealthCheck \/ Write
  PROVE  Inv'
<1>1. /\ Connection \in Connections /\ ConnectionOK(Connection) /\ CallInv /\ StreamTypeOK
      /\ Connection.grpc = grpc /\ Connection.queue = queue
  BY InvParts DEF Connection
<1>2. CASE MarkIdle \/ HealthCheck
  <2>1. Connect(Connection) /\ queue' = queue
    BY <1>2 DEF MarkIdle, HealthCheck, Connect, Connection
  <2>2. /\ closeCount' = closeCount /\ delay' = delay /\ credentials' = credentials
        /\ base' = base /\ failures' = failures /\ handshake' \in Handshakes
        /\ state' = state \/ (IsOpen /\ state' = "Healthy")
        /\ timers' \in [backoff : BOOLEAN, idle : BOOLEAN, health : BOOLEAN]
        /\ timers'.backoff = timers.backoff
        /\ (state' = "Starting" <=> state = "Starting")
    BY <1>1, <1>2 DEF MarkIdle, HealthCheck, StreamTypeOK, IsOpen
  <2>3. TokenInv' /\ TokensUpTo(queue', closeCount')
    BY <2>1, <2>2, TokenInvKept, SameTokensReflexive
  <2> QED
    BY <1>1, <2>1, <2>2, <2>3, QuietStep DEF CallInv
<1>3. CASE Write
  <2> DEFINE n == EnqueueWrite(Connection)
  <2>1. /\ n \in Connections /\ ConnectionOK(n) /\ n.queue = queue
        /\ grpc.completions \subseteq n.grpc.completions
        /\ n.grpc.call = grpc.call /\ n.grpc.observer = grpc.observer
        /\ n.grpc.finished = grpc.finished
    BY <1>1, EnqueueWriteKeeps
  <2>2. /\ closeCount' = closeCount /\ delay' = delay /\ credentials' = credentials
        /\ base' = base /\ failures' = failures /\ state' = state /\ handshake' \in Handshakes
        /\ timers' \in [backoff : BOOLEAN, idle : BOOLEAN, health : BOOLEAN]
        /\ timers'.backoff = timers.backoff /\ IsOpen /\ Connect(n)
    BY <1>1, <1>3 DEF Write, StreamTypeOK
  <2> HIDE DEF n
  <2>3. queue' = queue
    BY <2>1, <2>2 DEF Connect
  <2>4. TokenInv' /\ TokensUpTo(queue', closeCount')
    BY <2>2, <2>3, TokenInvKept, SameTokensReflexive
  <2>5. /\ grpc.observer
        /\ n.grpc.completions \cap {"Read", "Finish"} # {}
        /\ n.grpc.finished => "Finish" \in n.grpc.completions
    BY <1>1, <2>1, <2>2 DEF CallInv
  <2> QED
    BY <2>1, <2>2, <2>4, <2>5, QuietStep
<1> QED
  BY <1>2, <1>3

\* Operations that have become no-ops.
LEMMA NoOpStep ==
  ASSUME Inv, StaleToken \/ CancelledCompletion
  PROVE  Inv'
<1>1. /\ queue # <<>> /\ queue' = Tail(queue)
      /\ UNCHANGED <<streamVars, credentials, grpc, ok>>
      /\ ~ (Head(queue).kind = "token" /\ Head(queue).count = closeCount)
  BY DEF StaleToken, CancelledCompletion, NextIs
<1>2. /\ Dequeued \in Connections /\ ConnectionOK(Dequeued) /\ Dequeued.queue = Tail(queue)
      /\ Dequeued.grpc = grpc /\ Dequeued.ok = TRUE
  BY <1>1, DequeuedKeeps
<1>3. CallInv /\ StreamTypeOK /\ ok = TRUE
  BY InvParts
<1>4. Connect(Dequeued)
  BY <1>1, <1>2, <1>3 DEF Connect
<1>5. /\ closeCount' = closeCount /\ delay' = delay /\ credentials' = credentials
      /\ base' = base /\ failures' = failures /\ state' = state /\ timers' = timers
      /\ handshake' \in Handshakes
      /\ timers \in [backoff : BOOLEAN, idle : BOOLEAN, health : BOOLEAN]
  BY <1>1, <1>3 DEF streamVars, StreamTypeOK
<1>6. TokenInv' /\ TokensUpTo(queue', closeCount')
  BY <1>1, <1>5, TokenInvKept, SameTokensReflexive
<1> QED
  BY <1>2, <1>3, <1>4, <1>5, <1>6, QuietStep DEF CallInv

\* The head of the queue is a completion, so no token.
LEMMA CompletedTokens ==
  ASSUME Inv, NEW type, NEW success, Completed(type, success),
         closeCount' = closeCount, credentials' = credentials, state' = state,
         SameTokens(queue', Tail(queue))
  PROVE  TokenInv' /\ TokensUpTo(queue', closeCount')
<1>1. queue # <<>> /\ ~ (Head(queue).kind = "token" /\ Head(queue).count = closeCount)
  BY DEF Completed, NextIs
<1> QED
  BY <1>1, TokenInvKept

LEMMA OnStreamReadStep ==
  ASSUME Inv, OnStreamRead
  PROVE  Inv'
<1> DEFINE r == Removed("Read")
           n == NewCompletion(r, "Read")
<1>1. Completed("Read", TRUE) /\ "Read" \in Types /\ TRUE \in BOOLEAN
  BY DEF OnStreamRead, Types
<1>2. /\ r \in Connections /\ ConnectionOK(r) /\ r.queue = Tail(queue)
      /\ r.grpc.completions = grpc.completions \ {"Read"}
      /\ r.grpc.call = grpc.call /\ r.grpc.observer = grpc.observer
      /\ r.grpc.finished = grpc.finished /\ IsOpen /\ grpc.observer
  BY <1>1, RemovedKeeps
<1> HIDE DEF r
<1>3. /\ n \in Connections /\ ConnectionOK(n) /\ n.queue = Tail(queue)
      /\ n.grpc.completions = r.grpc.completions \cup {"Read"}
      /\ n.grpc.call = grpc.call /\ n.grpc.observer = grpc.observer
      /\ n.grpc.finished = grpc.finished
  BY <1>1, <1>2, NewCompletionKeeps
<1> HIDE DEF n
<1>4. [n EXCEPT !.ok = @ /\ IsStarted] = n
  <2>1. n.ok = TRUE /\ IsStarted
    BY <1>2, <1>3 DEF ConnectionOK, IsStarted, Connections
  <2> QED
    BY <1>3, <2>1 DEF Connections
<1>5. Connect(n)
  BY <1>4 DEF OnStreamRead, n, r
<1>6. StreamTypeOK /\ CallInv
  BY InvParts
<1>7. /\ closeCount' = closeCount /\ delay' = delay /\ credentials' = credentials
      /\ (base' = base /\ failures' = failures) \/ (base' = 0 /\ failures' = 0)
      /\ state' = state /\ timers' = timers /\ handshake' \in Handshakes
      /\ timers \in [backoff : BOOLEAN, idle : BOOLEAN, health : BOOLEAN]
      /\ queue' = Tail(queue)
  BY <1>3, <1>5, <1>6
  DEF OnStreamRead, Respond, ErrorsAfterResponse, Errors, NoErrors, StreamTypeOK, Handshakes,
      Connect
<1>8. TokenInv' /\ TokensUpTo(queue', closeCount')
  BY <1>1, <1>7, CompletedTokens, SameTokensReflexive
<1>9. /\ n.grpc.completions \cap {"Read", "Finish"} # {}
      /\ n.grpc.finished => "Finish" \in n.grpc.completions
  BY <1>2, <1>3, <1>6 DEF CallInv
<1> QED
  BY <1>2, <1>3, <1>5, <1>7, <1>8, <1>9, QuietStep

\* A write has ended and the next one is started.
LEMMA OnWriteStep ==
  ASSUME Inv, OnWrite
  PROVE  Inv'
<1> DEFINE r == Removed("Write")
           n == DequeueNextWrite(r)
<1>1. Completed("Write", TRUE) /\ "Write" \in Types /\ TRUE \in BOOLEAN
  BY DEF OnWrite, Types
<1>2. /\ r \in Connections /\ ConnectionOK(r) /\ r.queue = Tail(queue)
      /\ r.grpc.completions = grpc.completions \ {"Write"}
      /\ r.grpc.call = grpc.call /\ r.grpc.observer = grpc.observer
      /\ r.grpc.finished = grpc.finished /\ IsOpen /\ grpc.observer
  BY <1>1, RemovedKeeps
<1> HIDE DEF r
<1>3. /\ n \in Connections /\ ConnectionOK(n) /\ n.queue = Tail(queue)
      /\ r.grpc.completions \subseteq n.grpc.completions
      /\ n.grpc.call = grpc.call /\ n.grpc.observer = grpc.observer
      /\ n.grpc.finished = grpc.finished
  BY <1>2, DequeueNextWriteKeeps
<1>4. Connect(n) /\ UNCHANGED <<streamVars, credentials>>
  BY DEF OnWrite, r
<1> HIDE DEF n
<1>5. StreamTypeOK /\ CallInv
  BY InvParts
<1>6. /\ closeCount' = closeCount /\ delay' = delay /\ credentials' = credentials
      /\ base' = base /\ failures' = failures /\ state' = state /\ timers' = timers
      /\ handshake' \in Handshakes
      /\ timers \in [backoff : BOOLEAN, idle : BOOLEAN, health : BOOLEAN]
      /\ queue' = Tail(queue)
  BY <1>3, <1>4, <1>5 DEF streamVars, StreamTypeOK, Connect
<1>7. TokenInv' /\ TokensUpTo(queue', closeCount')
  BY <1>1, <1>6, CompletedTokens, SameTokensReflexive
<1>8. /\ n.grpc.completions \cap {"Read", "Finish"} # {}
      /\ n.grpc.finished => "Finish" \in n.grpc.completions
  BY <1>2, <1>3, <1>5 DEF CallInv
<1> QED
  BY <1>2, <1>3, <1>4, <1>6, <1>7, <1>8, QuietStep

\* An operation failed: the call is finished, unless it is already.
LEMMA OperationFailedStep ==
  ASSUME Inv, OperationFailed
  PROVE  Inv'
<1>1. PICK type \in Types : Completed(type, FALSE) /\ Connect(OnOperationFailed(Removed(type)))
  BY DEF OperationFailed
<1> DEFINE r == Removed(type)
           n == OnOperationFailed(r)
<1>2. /\ r \in Connections /\ ConnectionOK(r) /\ r.queue = Tail(queue)
      /\ r.grpc.completions = grpc.completions \ {type}
      /\ r.grpc.call = grpc.call /\ r.grpc.observer = grpc.observer
      /\ r.grpc.finished = grpc.finished /\ IsOpen /\ grpc.observer
      /\ type # "Finish"
  BY <1>1, RemovedKeeps
<1>3. StreamTypeOK /\ CallInv
  BY InvParts
<1> HIDE DEF r
<1>4. /\ n \in Connections /\ ConnectionOK(n) /\ SameTokens(n.queue, Tail(queue))
      /\ n.grpc.call = grpc.call /\ n.grpc.observer = grpc.observer
      /\ "Finish" \in n.grpc.completions
  <2>1. CASE grpc.finished
    BY <1>2, <1>3, <2>1, SameTokensReflexive DEF OnOperationFailed, CallInv
  <2>2. CASE ~ grpc.finished
    <3>1. n = FinishGrpcCall(r)
      BY <1>2, <2>2 DEF OnOperationFailed
    <3> QED
      BY <1>2, <2>2, <3>1, FinishGrpcCallKeeps
  <2> QED
    BY <2>1, <2>2
<1>5. Connect(n) /\ UNCHANGED <<streamVars, credentials>>
  BY <1>1 DEF OperationFailed, r
<1> HIDE DEF n
<1>6. /\ closeCount' = closeCount /\ delay' = delay /\ credentials' = credentials
      /\ base' = base /\ failures' = failures /\ state' = state /\ timers' = timers
      /\ handshake' \in Handshakes
      /\ timers \in [backoff : BOOLEAN, idle : BOOLEAN, health : BOOLEAN]
      /\ SameTokens(queue', Tail(queue))
  BY <1>3, <1>4, <1>5 DEF streamVars, StreamTypeOK, Connect
<1>7. TokenInv' /\ TokensUpTo(queue', closeCount')
  BY <1>1, <1>6, CompletedTokens
<1>8. n.grpc.completions \cap {"Read", "Finish"} # {}
  BY <1>4
<1> QED
  BY <1>2, <1>4, <1>5, <1>6, <1>7, <1>8, QuietStep

\* Every way to close the stream.
LEMMA ClosingStep ==
  ASSUME Inv,
         \/ Stop \/ IdleTimeout \/ ConnectivityChange
         \/ \E parsed \in BOOLEAN : UnreadableResponse(parsed)
         \/ \E status \in {"ok", "error", "exhausted"} : OnStreamFinish(status)
  PROVE  Inv'
<1>1. /\ Connection \in Connections /\ ConnectionOK(Connection) /\ CallInv
      /\ Connection.grpc = grpc /\ Connection.queue = queue
      /\ TokensUpTo(queue, closeCount)
  BY InvParts DEF Connection
<1>2. CASE Stop \/ IdleTimeout
  BY <1>1, <1>2, CloseStep, NoCallTyped DEF Stop, IdleTimeout
<1>3. ASSUME NEW c \in Connections, ConnectionOK(c), TokensUpTo(c.queue, closeCount),
             NEW status \in {"ok", "error", "exhausted"}, grpc.observer,
             NEW errors \in {Errors, NoErrors}, Close(FinishImmediately(c), errors, status)
      PROVE  Inv'
  <2> DEFINE f == FinishImmediately(c)
  <2>1. /\ f \in Connections /\ ConnectionOK(f) /\ SameTokens(f.queue, c.queue)
        /\ f.grpc.completions = {}
    BY <1>3, FinishImmediatelyKeeps
  <2>2. TokensUpTo(f.queue, closeCount)
    BY <1>3, <2>1, SameTokensFor
  <2>3. IsStarted
    BY <1>1, <1>3 DEF CallInv, IsStarted
  <2>4. Close(f, errors, status)
    BY <1>3
  <2> HIDE DEF f
  <2> QED
    BY <2>1, <2>2, <2>3, <2>4, CloseStep
<1>4. CASE ConnectivityChange
  BY <1>1, <1>3, <1>4 DEF ConnectivityChange
<1>5. ASSUME NEW type \in Types, Completed(type, TRUE)
      PROVE  /\ Removed(type) \in Connections /\ ConnectionOK(Removed(type))
             /\ TokensUpTo(Removed(type).queue, closeCount) /\ grpc.observer
             /\ type \notin Removed(type).grpc.completions
  <2>1. queue # <<>> /\ TRUE \in BOOLEAN
    BY <1>5 DEF Completed, NextIs
  <2> QED
    BY <1>5, <2>1, RemovedKeeps, DequeuedKeeps
<1>6. ASSUME NEW parsed \in BOOLEAN, UnreadableResponse(parsed)
      PROVE  Inv'
  <2> DEFINE r == Removed("Read")
             n == NewCompletion(r, "Read")
  <2>1. Completed("Read", TRUE) /\ "Read" \in Types
    BY <1>6 DEF UnreadableResponse, Types
  <2>2. r \in Connections /\ ConnectionOK(r) /\ TokensUpTo(r.queue, closeCount)
        /\ grpc.observer /\ "Read" \notin r.grpc.completions
    BY <1>5, <2>1
  <2>3. PICK errors \in {Errors, NoErrors} : Close(FinishImmediately(n), errors, "error")
    BY <1>6 DEF UnreadableResponse, ErrorsAfterResponse
  <2> HIDE DEF r
  <2>4. n \in Connections /\ ConnectionOK(n) /\ n.queue = r.queue
    BY <2>1, <2>2, NewCompletionKeeps
  <2> HIDE DEF n
  <2> QED
    BY <1>3, <2>2, <2>3, <2>4
<1>7. ASSUME NEW status \in {"ok", "error", "exhausted"}, OnStreamFinish(status)
      PROVE  Inv'
  <2>1. Completed("Finish", TRUE) /\ "Finish" \in Types
    BY <1>7 DEF OnStreamFinish, Types
  <2> QED
    BY <1>3, <1>5, <1>7, <2>1 DEF OnStreamFinish
<1> QED
  BY <1>2, <1>4, <1>6, <1>7

\* What an operation put on the queue changes.
LEMMA AppendTokens ==
  ASSUME NEW q \in Seq(Operations), NEW e \in Operations, NEW n
  PROVE  /\ Append(q, e) \in Seq(Operations)
         /\ TokensFor(Append(q, e), n) = TokensFor(q, n) \cup
               (IF e.kind = "token" /\ e.count = n THEN {Len(q) + 1} ELSE {})
         /\ TokensUpTo(q, n) /\ (e.kind = "token" => e.count <= n) =>
               TokensUpTo(Append(q, e), n)
<1> DEFINE a == Append(q, e)
<1>1. /\ a \in Seq(Operations) /\ Len(q) \in Nat /\ Len(a) = Len(q) + 1
      /\ DOMAIN a = (DOMAIN q) \cup {Len(q) + 1} /\ Len(q) + 1 \notin DOMAIN q
      /\ a[Len(q) + 1] = e /\ \A i \in DOMAIN q : a[i] = q[i]
  OBVIOUS
<1> HIDE DEF a
<1>2. TokensFor(a, n) = TokensFor(q, n) \cup
         (IF e.kind = "token" /\ e.count = n THEN {Len(q) + 1} ELSE {})
  BY <1>1 DEF TokensFor
<1>3. TokensUpTo(q, n) /\ (e.kind = "token" => e.count <= n) => TokensUpTo(a, n)
  BY <1>1 DEF TokensUpTo
<1> QED
  BY <1>1, <1>2, <1>3 DEF a

LEMMA AppendLive ==
  ASSUME NEW g, NEW q \in Seq(Operations), LiveMatches(g, q), NEW e \in Operations,
         e.kind = "completion" =>
            /\ e.call = g.call /\ e.type \in g.completions /\ (e.type = "Finish" => e.ok)
            /\ \A i \in DOMAIN q : Live(q, i) => q[i].type # e.type
  PROVE  LiveMatches(g, Append(q, e))
<1> DEFINE a == Append(q, e)
<1>1. /\ DOMAIN a = (DOMAIN q) \cup {Len(q) + 1} /\ Len(q) + 1 \notin DOMAIN q
      /\ a[Len(q) + 1] = e /\ \A i \in DOMAIN q : a[i] = q[i]
  OBVIOUS
<1> HIDE DEF a
<1>2. (\A i \in DOMAIN q : Live(a, i) <=> Live(q, i))
      /\ (Live(a, Len(q) + 1) => e.kind = "completion")
  BY <1>1 DEF Live
<1>3. LiveMatches(g, a)
  BY <1>1, <1>2 DEF LiveMatches
<1> QED
  BY <1>3 DEF a

\* A completion leaves gRPC for the worker queue.
LEMMA CompleteStep ==
  ASSUME Inv, NEW type \in Types, NEW success \in BOOLEAN, Complete(type, success)
  PROVE  Inv'
<1> DEFINE e == [kind |-> "completion", call |-> grpc.call, type |-> type,
                 ok |-> success, cancelled |-> FALSE]
           c == [Connection EXCEPT !.queue = Append(queue, e)]
<1>1. /\ Connection \in Connections /\ ConnectionOK(Connection) /\ StreamTypeOK /\ CallInv
      /\ queue \in Seq(Operations) /\ grpc \in Calls /\ ok = TRUE /\ LiveMatches(grpc, queue)
      /\ TokenInv /\ TokensUpTo(queue, closeCount)
  BY InvParts
<1>2. e \in Operations
  BY <1>1 DEF Operations, Calls
<1>3. /\ e.kind = "completion" /\ e.call = grpc.call /\ e.type = type /\ e.ok = success
      /\ type \in WithGrpc /\ (type = "Finish" => success)
      /\ queue' = Append(queue, e) /\ UNCHANGED <<streamVars, credentials, grpc, ok>>
  BY DEF Complete
<1> HIDE DEF e
<1>4. /\ type \in grpc.completions
      /\ \A i \in DOMAIN queue : Live(queue, i) => queue[i].type # type
  BY <1>1, <1>3 DEF WithGrpc, Live, LiveMatches
<1>5. LiveMatches(grpc, Append(queue, e))
  BY <1>1, <1>2, <1>3, <1>4, AppendLive
<1>6. /\ Append(queue, e) \in Seq(Operations)
      /\ TokensFor(Append(queue, e), closeCount) = TokensFor(queue, closeCount)
      /\ TokensUpTo(Append(queue, e), closeCount)
  <2>1. /\ Append(queue, e) \in Seq(Operations)
        /\ TokensFor(Append(queue, e), closeCount) = TokensFor(queue, closeCount) \cup
              (IF e.kind = "token" /\ e.count = closeCount THEN {Len(queue) + 1} ELSE {})
        /\ TokensUpTo(queue, closeCount) /\ (e.kind = "token" => e.count <= closeCount) =>
              TokensUpTo(Append(queue, e), closeCount)
    BY <1>1, <1>2, AppendTokens, Zenon
  <2>2. e.kind # "token"
    BY <1>3
  <2> QED
    BY <1>1, <2>1, <2>2
<1>7. /\ c \in Connections /\ c.grpc = grpc /\ c.ok = TRUE /\ c.queue = Append(queue, e)
  BY <1>1, <1>6 DEF Connection, Connections
<1>8. ConnectionOK(c) /\ Connect(c)
  BY <1>1, <1>3, <1>5, <1>7 DEF ConnectionOK, Connection, Connect
<1> HIDE DEF c
<1>9. /\ closeCount' = closeCount /\ delay' = delay /\ credentials' = credentials
      /\ base' = base /\ failures' = failures /\ state' = state /\ timers' = timers
      /\ handshake' \in Handshakes
      /\ timers \in [backoff : BOOLEAN, idle : BOOLEAN, health : BOOLEAN]
  BY <1>1, <1>3 DEF streamVars, StreamTypeOK
<1>10. TokenInv' /\ TokensUpTo(queue', closeCount')
  BY <1>1, <1>3, <1>6, <1>9 DEF TokenInv, RequestsFor
<1> QED
  BY <1>1, <1>7, <1>8, <1>9, <1>10, QuietStep DEF CallInv

\* The stream starts, at once or after a backoff, and asks for a token.
LEMMA RequestStep ==
  ASSUME Inv, state \in {"Initial", "Backoff"}, state' = "Starting", RequestCredentials,
         timers' \in [backoff : BOOLEAN, idle : BOOLEAN, health : BOOLEAN],
         ~ timers'.backoff, UNCHANGED <<closeCount, base, delay, failures, handshake, grpc,
                                               queue>>,
         ok' = TRUE
  PROVE  Inv'
<1> DEFINE r == [count |-> closeCount, auth |-> "none", appCheck |-> FALSE]
<1>1. /\ Connection \in Connections /\ ConnectionOK(Connection) /\ StreamTypeOK /\ CallInv
      /\ ok = TRUE /\ TokenInv /\ TokensUpTo(queue, closeCount) /\ BackoffInv
      /\ \A s \in credentials : s.count <= closeCount
  BY InvParts
<1>2. credentials' = credentials \cup {r} /\ r.count = closeCount
  BY DEF RequestCredentials
<1>3. r \in [count : Nat, auth : {"none", "ok", "error"}, appCheck : BOOLEAN]
  BY <1>1 DEF StreamTypeOK
<1> HIDE DEF r
<1>4. StreamTypeOK'
  BY <1>1, <1>2, <1>3 DEF StreamTypeOK, States
<1>5. Connect(Connection)
  BY <1>1 DEF Connect, Connection
<1>6. RequestsFor(closeCount) = {} /\ TokensFor(queue, closeCount) = {}
  BY <1>1 DEF TokenInv
<1>7. RequestsFor(closeCount)' = {r} /\ TokensFor(queue', closeCount') = {}
  BY <1>2, <1>6 DEF RequestsFor
<1>8. TokenInv' /\ TokensUpTo(queue', closeCount')
  BY <1>1, <1>7 DEF TokenInv
<1>9. \A s \in credentials' : s.count <= closeCount'
  BY <1>1, <1>2 DEF StreamTypeOK
<1>10. BackoffInv'
  BY <1>1 DEF BackoffInv
<1>11. CallInv'
  BY <1>1, NoCallTyped DEF CallInv, IsOpen
<1> QED
  BY <1>1, <1>4, <1>5, <1>8, <1>9, <1>10, <1>11, InvFromParts

\* The smaller of the next step and the cap.
LEMMA MinOfPair ==
  ASSUME NEW a \in Int, NEW b \in Int
  PROVE  Min({a, b}) = IF a <= b THEN a ELSE b
<1> DEFINE m == IF a <= b THEN a ELSE b
<1>1. m \in {a, b} /\ \A y \in {a, b} : m <= y
  OBVIOUS
<1>2. \A z \in {a, b} : (\A y \in {a, b} : z <= y) => z = m
  OBVIOUS
<1> HIDE DEF m
<1>3. (CHOOSE z \in {a, b} : \A y \in {a, b} : z <= y) = m
  BY <1>1, <1>2
<1> QED
  BY <1>3 DEF Min, m

\* Start, the backoff timer and InhibitBackoff.
LEMMA StartingStep ==
  ASSUME Inv, Start \/ BackoffElapsed \/ InhibitBackoff
  PROVE  Inv'
<1>1. /\ Connection \in Connections /\ ConnectionOK(Connection) /\ StreamTypeOK /\ CallInv
      /\ ok = TRUE /\ TokenInv /\ TokensUpTo(queue, closeCount) /\ BackoffInv
      /\ \A s \in credentials : s.count <= closeCount
  BY InvParts
<1>2. CASE Start /\ state = "Error"
  <2>1. /\ state' = "Backoff" /\ BackoffAndRun
        /\ UNCHANGED <<credentials, closeCount, grpc, queue, ok, failures, handshake>>
    BY <1>2 DEF Start
  <2>2. /\ timers' \in [backoff : BOOLEAN, idle : BOOLEAN, health : BOOLEAN]
        /\ timers'.backoff = TRUE /\ delay' = base
    BY <1>1, <2>1 DEF BackoffAndRun, StreamTypeOK
  <2>3. base \in 0..MaxBase /\ base' = (IF base + 1 <= MaxBase THEN base + 1 ELSE MaxBase)
    BY <1>1, <2>1, MinOfPair DEF BackoffAndRun, StreamTypeOK
  <2>4. StreamTypeOK'
    BY <1>1, <2>1, <2>2, <2>3 DEF StreamTypeOK, States
  <2>5. BackoffInv'
    <3>1. base >= failures - 1 \/ base = MaxBase
      BY <1>1, <1>2 DEF BackoffInv
    <3>2. failures \in Nat
      BY <1>1 DEF StreamTypeOK
    <3> QED
      BY <2>1, <2>2, <2>3, <3>1, <3>2 DEF BackoffInv
  <2>6. TokenInv' /\ TokensUpTo(queue', closeCount')
    BY <1>1, <1>2, <2>1, TokenInvKept, SameTokensReflexive
  <2>7. Connect(Connection) /\ CallInv' /\ \A s \in credentials' : s.count <= closeCount'
    BY <1>1, <1>2, <2>1, NoCallTyped DEF Connect, Connection, CallInv, IsOpen
  <2> QED
    BY <1>1, <2>4, <2>5, <2>6, <2>7, InvFromParts
<1>3. CASE Start /\ state = "Initial"
  <2>1. ~ timers.backoff /\ timers' = timers
    BY <1>1, <1>3 DEF Start, BackoffInv
  <2> QED
    BY <1>1, <1>3, <2>1, RequestStep DEF Start, StreamTypeOK
<1>4. CASE BackoffElapsed
  <2>1. state = "Backoff" /\ ok' = TRUE
    BY <1>1, <1>4 DEF BackoffElapsed, BackoffInv
  <2>2. timers' \in [backoff : BOOLEAN, idle : BOOLEAN, health : BOOLEAN] /\ ~ timers'.backoff
    BY <1>1, <1>4 DEF BackoffElapsed, StreamTypeOK
  <2> QED
    BY <1>4, <2>1, <2>2, RequestStep DEF BackoffElapsed
<1>5. CASE InhibitBackoff
  <2>1. /\ state \in {"Initial", "Error"} /\ state' = "Initial" /\ base' = 0 /\ failures' = 0
        /\ UNCHANGED <<closeCount, timers, delay, handshake, credentials, grpc, queue, ok>>
    BY <1>1, <1>5 DEF InhibitBackoff, IsStarted, IsOpen, StreamTypeOK, States
  <2>2. StreamTypeOK'
    BY <1>1, <2>1 DEF StreamTypeOK, States
  <2>3. BackoffInv'
    BY <1>1, <2>1 DEF BackoffInv
  <2>4. TokenInv' /\ TokensUpTo(queue', closeCount')
    BY <2>1, TokenInvKept, SameTokensReflexive
  <2>5. Connect(Connection) /\ CallInv' /\ \A s \in credentials' : s.count <= closeCount'
    BY <1>1, <2>1, NoCallTyped DEF Connect, Connection, CallInv, IsOpen
  <2> QED
    BY <1>1, <2>2, <2>3, <2>4, <2>5, InvFromParts
<1> QED
  BY <1>2, <1>3, <1>4, <1>5 DEF Start

\* A provider answers: a request that is not answered in full stays a request, one that
\* is becomes a token; of now there is one at most.
LEMMA ReceiveStep ==
  ASSUME Inv, NEW r \in credentials, NEW answered,
         answered \in [count : Nat, auth : {"none", "ok", "error"}, appCheck : BOOLEAN],
         answered.count = r.count, Receive(r, answered),
         UNCHANGED <<streamVars, grpc, ok>>
  PROVE  Inv'
<1> DEFINE n == closeCount
           e == [kind |-> "token", count |-> r.count, auth |-> answered.auth]
           full == answered.auth # "none" /\ answered.appCheck
<1>1. /\ Connection \in Connections /\ ConnectionOK(Connection) /\ StreamTypeOK /\ CallInv
      /\ queue \in Seq(Operations) /\ ok = TRUE /\ LiveMatches(grpc, queue)
      /\ TokenInv /\ TokensUpTo(queue, n) /\ BackoffInv
      /\ \A s \in credentials : s.count <= n
  BY InvParts
<1>2. /\ closeCount' = n /\ state' = state /\ timers' = timers /\ base' = base
      /\ delay' = delay /\ failures' = failures /\ handshake' = handshake /\ grpc' = grpc
      /\ ok' = TRUE
  BY <1>1 DEF streamVars
<1>3. n \in Nat /\ r.count \in Nat /\ r.count <= n
  BY <1>1 DEF StreamTypeOK
<1>4. r.count = n => RequestsFor(n) = {r} /\ TokensFor(queue, n) = {} /\ state = "Starting"
  BY <1>1 DEF TokenInv, RequestsFor
<1>5. BackoffInv' /\ CallInv'
  BY <1>1, <1>2 DEF BackoffInv, CallInv, IsOpen
<1>6. CASE full
  <2>1. credentials' = credentials \ {r} /\ queue' = Append(queue, e)
    BY <1>6 DEF Receive
  <2>2. e \in Operations /\ e.kind = "token" /\ e.count = r.count
    BY <1>3, <1>6 DEF Operations
  <2> HIDE DEF e
  <2> DEFINE c == [Connection EXCEPT !.queue = Append(queue, e)]
  <2>3. LiveMatches(grpc, Append(queue, e))
    BY <1>1, <2>2, AppendLive
  <2>4. /\ Append(queue, e) \in Seq(Operations)
        /\ TokensFor(Append(queue, e), n) = TokensFor(queue, n) \cup
              (IF e.kind = "token" /\ e.count = n THEN {Len(queue) + 1} ELSE {})
        /\ TokensUpTo(queue, n) /\ (e.kind = "token" => e.count <= n) =>
              TokensUpTo(Append(queue, e), n)
    BY <1>1, <2>2, AppendTokens, Zenon
  <2>5. /\ c \in Connections /\ c.grpc = grpc /\ c.ok = TRUE /\ c.queue = Append(queue, e)
    BY <1>1, <2>4 DEF Connection, Connections
  <2>6. ConnectionOK(c) /\ Connect(c)
    BY <1>1, <1>2, <2>1, <2>3, <2>5 DEF ConnectionOK, Connection, Connect
  <2>7. StreamTypeOK' /\ \A s \in credentials' : s.count <= closeCount'
    BY <1>1, <1>2, <2>1 DEF StreamTypeOK
  <2>8. TokensUpTo(queue', closeCount')
    BY <1>1, <1>2, <1>3, <2>1, <2>2, <2>4
  <2>9. TokenInv'
    <3>1. CASE r.count = n
      <4>1. RequestsFor(closeCount)' = {}
        BY <1>2, <1>4, <2>1, <3>1 DEF RequestsFor
      <4>2. TokensFor(queue', closeCount') = {Len(queue) + 1}
        BY <1>2, <1>4, <2>1, <2>2, <2>4, <3>1
      <4> QED
        BY <1>2, <1>4, <3>1, <4>1, <4>2 DEF TokenInv
    <3>2. CASE r.count # n
      <4>1. RequestsFor(closeCount)' = RequestsFor(n)
        BY <1>2, <2>1, <3>2 DEF RequestsFor
      <4>2. TokensFor(queue', closeCount') = TokensFor(queue, n)
        BY <1>2, <2>1, <2>2, <2>4, <3>2
      <4> QED
        BY <1>1, <1>2, <4>1, <4>2 DEF TokenInv
    <3> QED
      BY <3>1, <3>2
  <2> HIDE DEF c
  <2> QED
    BY <1>5, <2>5, <2>6, <2>7, <2>8, <2>9, InvFromParts
<1>7. CASE ~ full
  <2>1. credentials' = (credentials \ {r}) \cup {answered} /\ queue' = queue
    BY <1>7 DEF Receive
  <2>2. Connect(Connection)
    BY <1>1, <1>2, <2>1 DEF Connect, Connection
  <2>3. StreamTypeOK' /\ \A s \in credentials' : s.count <= closeCount'
    BY <1>1, <1>2, <1>3, <2>1 DEF StreamTypeOK
  <2>4. TokensUpTo(queue', closeCount')
    BY <1>1, <1>2, <2>1
  <2>5. TokenInv'
    <3>1. CASE r.count = n
      <4>1. RequestsFor(closeCount)' = {answered}
        BY <1>2, <1>4, <2>1, <3>1 DEF RequestsFor
      <4>2. TokensFor(queue', closeCount') = {}
        BY <1>2, <1>4, <2>1, <3>1
      <4> QED
        BY <1>2, <1>4, <3>1, <4>1, <4>2 DEF TokenInv
    <3>2. CASE r.count # n
      <4>1. RequestsFor(closeCount)' = RequestsFor(n)
        BY <1>2, <2>1, <3>2 DEF RequestsFor
      <4> QED
        BY <1>1, <1>2, <2>1, <4>1 DEF TokenInv
    <3> QED
      BY <3>1, <3>2
  <2> QED
    BY <1>1, <1>5, <2>2, <2>3, <2>4, <2>5, InvFromParts
<1> QED
  BY <1>6, <1>7

LEMMA ProviderStep ==
  ASSUME Inv, NEW r \in credentials, ReceiveAuth(r) \/ ReceiveAppCheck(r)
  PROVE  Inv'
<1>1. r \in [count : Nat, auth : {"none", "ok", "error"}, appCheck : BOOLEAN]
  BY InvParts DEF StreamTypeOK
<1>2. CASE ReceiveAuth(r)
  <2>1. PICK auth \in {"ok", "error"} : Receive(r, [r EXCEPT !.auth = auth])
    BY <1>2 DEF ReceiveAuth
  <2> DEFINE a == [r EXCEPT !.auth = auth]
  <2>2. a \in [count : Nat, auth : {"none", "ok", "error"}, appCheck : BOOLEAN]
        /\ a.count = r.count
    BY <1>1
  <2>3. Receive(r, a) /\ UNCHANGED <<streamVars, grpc, ok>>
    BY <1>2, <2>1 DEF ReceiveAuth
  <2> HIDE DEF a
  <2> QED
    BY <2>2, <2>3, ReceiveStep
<1>3. CASE ReceiveAppCheck(r)
  <2> DEFINE a == [r EXCEPT !.appCheck = TRUE]
  <2>1. a \in [count : Nat, auth : {"none", "ok", "error"}, appCheck : BOOLEAN]
        /\ a.count = r.count
    BY <1>1
  <2>2. Receive(r, a) /\ UNCHANGED <<streamVars, grpc, ok>>
    BY <1>3 DEF ReceiveAppCheck
  <2> HIDE DEF a
  <2> QED
    BY <2>1, <2>2, ReceiveStep
<1> QED
  BY <1>2, <1>3

\* The token of this start arrives: it finds the stream starting and is the only one.
LEMMA TokenOfNow ==
  ASSUME Inv, NextIs("token"), Head(queue).count = closeCount
  PROVE  /\ state = "Starting" /\ queue # <<>> /\ grpc = NoCall
         /\ RequestsFor(closeCount) = {} /\ TokensFor(Tail(queue), closeCount) = {}
<1>1. queue \in Seq(Operations) /\ queue # <<>> /\ closeCount \in Nat /\ TokenInv /\ CallInv
      /\ Head(queue).kind = "token"
  BY InvParts DEF NextIs, StreamTypeOK
<1>2. 1 \in TokensFor(queue, closeCount)
  BY <1>1, TailTokens
<1>3. /\ state = "Starting" /\ RequestsFor(closeCount) = {}
      /\ \E i : TokensFor(queue, closeCount) = {i}
  BY <1>1, <1>2 DEF TokenInv
<1>4. TokensFor(Tail(queue), closeCount) = {}
  BY <1>1, <1>3, TailKeepsTokens
<1> QED
  BY <1>1, <1>3, <1>4 DEF CallInv, IsOpen

LEMMA TokenStep ==
  ASSUME Inv, ResumeStartWithCredentials \/ RefusedToken
  PROVE  Inv'
<1>1. /\ state = "Starting" /\ queue # <<>> /\ grpc = NoCall
      /\ RequestsFor(closeCount) = {} /\ TokensFor(Tail(queue), closeCount) = {}
  BY TokenOfNow DEF ResumeStartWithCredentials, RefusedToken
<1>2. /\ Dequeued \in Connections /\ Dequeued.queue = Tail(queue)
      /\ Dequeued.grpc = grpc /\ Dequeued.ok = TRUE
      /\ ConnectionOK(Dequeued)
      /\ TokensUpTo(Tail(queue), closeCount)
  BY <1>1, DequeuedKeeps
<1>3. StreamTypeOK /\ BackoffInv /\ ok = TRUE /\ \A s \in credentials : s.count <= closeCount
  BY InvParts
<1>4. CASE RefusedToken
  <2>1. [Dequeued EXCEPT !.ok = @ /\ state = "Starting"] = Dequeued
    BY <1>1, <1>2 DEF Connections
  <2>2. Close(Dequeued, Errors, "error")
    BY <1>4, <2>1 DEF RefusedToken
  <2>3. IsStarted /\ Dequeued.grpc.completions = {}
    BY <1>1, <1>2, NoCallTyped DEF IsStarted
  <2> QED
    BY <1>2, <2>2, <2>3, CloseStep
<1>5. CASE ResumeStartWithCredentials
  <2> DEFINE g == [NoCall EXCEPT !.call = closeCount, !.observer = TRUE, !.finished = FALSE]
             c == [grpc |-> g, queue |-> Tail(queue), ok |-> TRUE]
             n == NewCompletion(c, "Read")
  <2>1. /\ g \in Calls /\ g.completions = {} /\ g.call = closeCount /\ g.observer = TRUE
        /\ g.finished = FALSE
    BY <1>3 DEF NoCall, Calls, StreamTypeOK
  <2>2. Connect(n)
    <3>1. (ok /\ state = "Starting") = TRUE
      BY <1>1, <1>3
    <3> QED
      BY <1>5, <3>1 DEF ResumeStartWithCredentials
  <2> HIDE DEF g
  <2>3. c \in Connections
    BY <1>2, <2>1 DEF Connections
  <2>4. ConnectionOK(c)
    BY <1>1, <1>2, <2>1, NoCallTyped DEF ConnectionOK, LiveMatches
  <2>5. /\ c.grpc = g /\ c.queue = Tail(queue) /\ "Read" \in Types /\ "Read" \notin c.grpc.completions
    BY <2>1 DEF Types
  <2> HIDE DEF c
  <2>6. /\ n \in Connections /\ ConnectionOK(n) /\ n.queue = Tail(queue)
        /\ n.grpc.completions = {"Read"}
        /\ n.grpc.call = closeCount /\ n.grpc.observer = TRUE /\ n.grpc.finished = FALSE
    BY <2>1, <2>3, <2>4, <2>5, NewCompletionKeeps
  <2> HIDE DEF n
  <2>7. /\ state' = "Open" /\ timers' = [timers EXCEPT !.health = TRUE]
        /\ UNCHANGED <<closeCount, base, delay, failures, handshake, credentials>>
    BY <1>5 DEF ResumeStartWithCredentials
  <2>8. StreamTypeOK' /\ BackoffInv'
    BY <1>1, <1>3, <2>7 DEF StreamTypeOK, BackoffInv, States
  <2>9. grpc' = n.grpc /\ queue' = Tail(queue)
    BY <2>2, <2>6 DEF Connect
  <2>10. CallInv'
    BY <2>6, <2>7, <2>9 DEF CallInv, IsOpen
  <2>11. TokenInv' /\ TokensUpTo(queue', closeCount')
         /\ \A s \in credentials' : s.count <= closeCount'
    BY <1>1, <1>2, <1>3, <2>7, <2>9 DEF TokenInv, RequestsFor
  <2> QED
    BY <2>2, <2>6, <2>8, <2>10, <2>11, InvFromParts
<1> QED
  BY <1>4, <1>5

-----------------------------------------------------------------------------
LEMMA InitInv == Init => Inv
<1> SUFFICES ASSUME Init PROVE Inv
  OBVIOUS
<1>1. TypeOK
  BY NoCallTyped DEF Init, TypeOK, States, NoTimers, Handshakes
<1>2. ConnectionOK(Connection)
  BY NoCallTyped DEF Init, ConnectionOK, Connection, LiveMatches
<1>3. TokensUpTo(queue, closeCount) /\ TokenInv /\ \A r \in credentials : r.count <= closeCount
  BY DEF Init, TokensUpTo, TokenInv, RequestsFor, TokensFor
<1>4. BackoffInv /\ CallInv
  BY NoCallTyped DEF Init, BackoffInv, CallInv, IsOpen, NoTimers
<1> QED
  BY <1>1, <1>2, <1>3, <1>4 DEF Inv

LEMMA NextInv == Inv /\ [Next]_vars => Inv'
<1> SUFFICES ASSUME Inv, [Next]_vars PROVE Inv'
  OBVIOUS
<1>1. CASE UNCHANGED vars
  <2>1. UNCHANGED <<state, closeCount, timers, base, delay, failures, handshake, credentials, grpc,
                    queue, ok>>
    BY <1>1 DEF vars, streamVars
  <2>2. TypeOK' /\ TokenInv' /\ BackoffInv' /\ CallInv' /\ Connection' = Connection
    BY <2>1 DEF Inv, TypeOK, TokenInv, RequestsFor, BackoffInv, CallInv, IsOpen, Connection
  <2> QED
    BY <2>1, <2>2 DEF Inv
<1>2. CASE Start \/ BackoffElapsed \/ InhibitBackoff
  BY <1>2, StartingStep
<1>3. CASE \/ Stop \/ IdleTimeout \/ ConnectivityChange
           \/ \E parsed \in BOOLEAN : UnreadableResponse(parsed)
           \/ \E status \in {"ok", "error", "exhausted"} : OnStreamFinish(status)
  BY <1>3, ClosingStep
<1>4. CASE MarkIdle \/ HealthCheck \/ Write
  BY <1>4, OwnerStep
<1>5. ASSUME NEW r \in credentials, ReceiveAuth(r) \/ ReceiveAppCheck(r) PROVE Inv'
  BY <1>5, ProviderStep
<1>6. ASSUME NEW type \in Types, NEW success \in BOOLEAN, Complete(type, success) PROVE Inv'
  BY <1>6, CompleteStep
<1>7. CASE StaleToken \/ CancelledCompletion
  BY <1>7, NoOpStep
<1>8. CASE ResumeStartWithCredentials \/ RefusedToken
  BY <1>8, TokenStep
<1>9. CASE OnStreamRead
  BY <1>9, OnStreamReadStep
<1>10. CASE OnWrite
  BY <1>10, OnWriteStep
<1>11. CASE OperationFailed
  BY <1>11, OperationFailedStep
<1> QED
  BY <1>1, <1>2, <1>3, <1>4, <1>5, <1>6, <1>7, <1>8, <1>9, <1>10, <1>11 DEF Next, Worker

\* The inductive invariant holds of every behaviour.
THEOREM InvHolds == Spec => []Inv
BY InitInv, NextInv, PTL DEF Spec

\* The state has its type: the backoff stays within its cap and the buffer of writes
\* never goes below empty (ExponentialBackoff, BufferedWriter).
THEOREM TypeCorrect == Spec => []TypeOK
<1>1. Inv => TypeOK
  BY DEF Inv
<1> QED
  BY <1>1, InvHolds, PTL

\* For any number of closes and writes no assertion of Stream or GrpcStream fails,
\* whatever the order of tokens, completions, timers and calls of the owner.
THEOREM AssertionsHoldAlways == Spec => []AssertionsHold
<1>1. Inv => AssertionsHold
  BY InvParts DEF AssertionsHold
<1> QED
  BY <1>1, InvHolds, PTL

\* A start waits for one answer of now, everyone else for none: no token asked for
\* before a close is taken for the token of the next start (Stream::RequestCredentials,
\* ResumeStartWithCredentials, Close).
THEOREM TokenPerStartHolds == Spec => []TokenPerStart
<1>1. Inv => TokenPerStart
  <2> SUFFICES ASSUME Inv PROVE TokenPerStart
    OBVIOUS
  <2> DEFINE C == RequestsFor(closeCount)
             Q == TokensFor(queue, closeCount)
  <2>1. /\ Cardinality({}) = 0
        /\ \A s : Cardinality({s}) = 1
    BY FS_EmptySet, FS_Singleton
  <2>2. IF state = "Starting"
        THEN ((\E r : C = {r}) /\ Q = {}) \/ (C = {} /\ \E i : Q = {i})
        ELSE C = {} /\ Q = {}
    BY DEF Inv, TokenInv
  <2> HIDE DEF C, Q
  <2>3. Cardinality(C) + Cardinality(Q) = IF state = "Starting" THEN 1 ELSE 0
    <3>1. CASE state = "Starting"
      <4>1. \/ Cardinality(C) = 1 /\ Cardinality(Q) = 0
            \/ Cardinality(C) = 0 /\ Cardinality(Q) = 1
        BY <2>1, <2>2, <3>1, Zenon
      <4> QED
        BY <3>1, <4>1
    <3>2. CASE state # "Starting"
      <4>1. Cardinality(C) = 0 /\ Cardinality(Q) = 0
        BY <2>1, <2>2, <3>2, Zenon
      <4> QED
        BY <3>2, <4>1
    <3> QED
      BY <3>1, <3>2
  <2> QED
    BY <2>3 DEF TokenPerStart, C, Q, RequestsFor, TokensFor
<1> QED
  BY <1>1, InvHolds, PTL

\* An open stream has a call of the present that listens, with a read or the finish
\* under way (GrpcStream::OnStart, OnRead, OnOperationFailed).
THEOREM OpenMeansListeningHolds == Spec => []OpenMeansListening
<1>1. Inv => OpenMeansListening
  BY InvParts DEF CallInv, OpenMeansListening
<1> QED
  BY <1>1, InvHolds, PTL

\* For any cap of the backoff, the delay grows with every error in a row, where the
\* response to a handshake does not end the row and any other parsed response does
\* (ExponentialBackoff::BackoffAndRun, NotifyStreamResponse, Stream::Close).
THEOREM BackoffGrowsHolds == Spec => []BackoffGrows
<1>1. Inv => BackoffGrows
  <2> SUFFICES ASSUME Inv, timers.backoff PROVE delay >= Min({failures - 1, MaxBase})
    BY DEF BackoffGrows
  <2>1. (delay >= failures - 1 \/ delay = MaxBase) /\ delay \in 0..MaxBase /\ failures \in Nat
    BY InvParts DEF BackoffInv, StreamTypeOK
  <2>2. Min({failures - 1, MaxBase}) = IF failures - 1 <= MaxBase THEN failures - 1 ELSE MaxBase
    BY <2>1, MinOfPair
  <2> QED
    BY <2>1, <2>2
<1> QED
  BY <1>1, InvHolds, PTL

=============================================================================
