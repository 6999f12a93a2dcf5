------------------------- MODULE TransactionsProofs -------------------------
(***************************************************************************)
(* Proofs about transactions, for any set of transactions and documents,   *)
(* any number of attempts, any block and any number of lost answers.       *)
(*                                                                         *)
(* Serializability rests on what a Transaction keeps while its block runs: *)
(* the first write of a document that was read carries the version that    *)
(* was read as its precondition, and a document that is only read gets a   *)
(* verify with it.  The backend tests the first write of a document        *)
(* against the version it has, so a commit it accepts has read the present.*)
(***************************************************************************)
EXTENDS Transactions, FiniteSetTheorems, TLAPS

USE TransactionsAssumption

-----------------------------------------------------------------------------
(* The inductive invariant. *)

Runners == [phase : Phases, attemptsRemaining : -1..MaxAttempts,
            result : Codes \cup {"none"}, attempts : Nat, lost : Nat]

TransactionRecords ==
    [reads : [Keys -> Versions \cup {Unread}], mutations : Seq(Mutations),
     written : SUBSET Keys, writeError : BOOLEAN, permanentlyFailed : BOOLEAN,
     calls : 0..MaxCalls]

\* An attempt is used up when it is scheduled, and begun when its backoff is over.
RunnerOK(r) ==
    /\ r.phase = "new" => r.attemptsRemaining = MaxAttempts /\ r.attempts = 0
    /\ r.phase = "backoff" => r.attempts = MaxAttempts - r.attemptsRemaining - 1
    /\ r.phase \notin {"new", "backoff"} => r.attempts = MaxAttempts - r.attemptsRemaining
    /\ r.phase # "new" =>
          IF MaxAttempts = 0 THEN r.attemptsRemaining = -1 ELSE r.attemptsRemaining >= 0
    /\ r.phase = "done" <=> r.result # "none"
    /\ r.result \in {"Aborted", "AlreadyExists", "Unavailable"} => r.attemptsRemaining <= 0

\* The precondition that says that a document still has the version v.
StillAt(v) == IF v = None THEN [kind |-> "NotExists"]
                          ELSE [kind |-> "UpdateTime", version |-> v]

\* Write i of muts is the first of document k and asks for the version v.
FirstWriteAsks(muts, i, k, v) ==
    /\ muts[i].key = k
    /\ \A j \in 1..(i - 1) : muts[j].key # k
    /\ muts[i].pre = StillAt(v)

WrittenBy(muts) == {muts[i].key : i \in DOMAIN muts}

\* A transaction that can still commit has a mutation for every document it counts as
\* written, and the first one of a document it read asks for the version that was read.
TransOK(t) ==
    /\ ~ t.permanentlyFailed
    /\ ~ t.writeError => t.written = WrittenBy(t.mutations)
    /\ ~ t.writeError => \A k \in Keys : HasRead(t, k) /\ k \in t.written =>
          \E i \in DOMAIN t.mutations : FirstWriteAsks(t.mutations, i, k, t.reads[k])

\* Every read that a commit rests on is tested by it.
ReadsTested(c) ==
    \A k \in Keys : c.reads[k] # Unread =>
        \/ \E i \in DOMAIN c.mutations : FirstWriteAsks(c.mutations, i, k, c.reads[k])
        \/ [key |-> k, pre |-> StillAt(c.reads[k])] \in c.verifies

StraysOf(x) == {c \in strays : c.txn = x}

\* A transaction is applied at most once for each answer that was lost, the commits
\* that may still be applied counted in, and once more if it has succeeded.
AppliedOK(x) ==
    /\ runner[x].result = "Ok" => applied[x] > 0
    /\ applied[x] + Cardinality(StraysOf(x))
          <= runner[x].lost + (IF runner[x].result = "Ok" THEN 1 ELSE 0)

Inv ==
    /\ TypeOK
    /\ IsFiniteSet(strays)
    /\ \A x \in Txns : RunnerOK(runner[x])
    /\ \A x \in Txns : TransOK(trans[x])
    /\ \A x \in Txns : Committing(x) => ~ trans[x].writeError
    /\ \A c \in strays : ReadsTested(c)
    /\ \A x \in Txns : AppliedOK(x)

-----------------------------------------------------------------------------
(* The runner. *)

\* An error ends the run or schedules the next attempt.
LEMMA ErrorHandled ==
  ASSUME NEW r \in Runners, RunnerOK(r), r.phase \in {"block", "committing"},
         NEW t \in TransactionRecords, NEW code \in Codes \ {"Ok"},
         t.permanentlyFailed => code = "Unknown"
  PROVE  LET h == HandleTransactionError(r, t, code)
         IN  /\ h \in Runners /\ RunnerOK(h)
             /\ h.phase \in {"backoff", "done"}
             /\ h.lost = r.lost
             /\ h.result \in {"none", code}
<1> DEFINE again == /\ r.attemptsRemaining > 0
                    /\ IsRetryableTransactionError(code)
                    /\ ~ t.permanentlyFailed
<1>1. CASE again
  <2> DEFINE h == Run(r)
  <2>1. HandleTransactionError(r, t, code) = h
    BY <1>1 DEF HandleTransactionError
  <2>2. /\ r.attemptsRemaining \in 1..MaxAttempts /\ r.attempts \in Nat
        /\ r.attemptsRemaining - 1 \in -1..MaxAttempts
    BY <1>1 DEF Runners
  <2>3. h \in Runners
    BY <2>2 DEF Run, Runners, Phases
  <2>4. /\ h.attemptsRemaining = r.attemptsRemaining - 1 /\ h.phase = "backoff"
        /\ h.attempts = r.attempts /\ h.lost = r.lost /\ h.result = r.result
    BY DEF Run, Runners
  <2>5. r.result = "none" /\ r.attempts = MaxAttempts - r.attemptsRemaining
    BY DEF RunnerOK
  <2>6. RunnerOK(h)
    BY <2>2, <2>4, <2>5 DEF RunnerOK
  <2> QED
    BY <2>1, <2>3, <2>4, <2>5, <2>6
<1>2. CASE ~ again
  <2>1. code \in {"Aborted", "AlreadyExists", "Unavailable"} => r.attemptsRemaining <= 0
    BY <1>2 DEF IsRetryableTransactionError, IsPermanentError, Runners
  <2> QED
    BY <1>2, <2>1 DEF HandleTransactionError, RunnerOK, Runners, Phases, Codes
<1> QED
  BY <1>1, <1>2

\* The same for the answer to a commit, which may also be OK.
LEMMA ResultDispatched ==
  ASSUME NEW r \in Runners, RunnerOK(r), r.phase \in {"block", "committing"},
         NEW t \in TransactionRecords, ~ t.permanentlyFailed, NEW code \in Codes
  PROVE  LET h == DispatchResult(r, t, code)
         IN  /\ h \in Runners /\ RunnerOK(h)
             /\ h.phase \in {"backoff", "done"}
             /\ h.lost = r.lost
             /\ code = "Ok" => h.result = "Ok"
             /\ code # "Ok" => h.result # "Ok"
<1>1. CASE code = "Ok"
  BY <1>1 DEF DispatchResult, RunnerOK, Runners, Phases, Codes
<1>2. CASE code # "Ok"
  BY <1>2, ErrorHandled DEF DispatchResult
<1> QED
  BY <1>1, <1>2

\* The end of the block: an error, or a commit without an error of a write.
LEMMA BlockEnded ==
  ASSUME NEW r \in Runners, RunnerOK(r), r.phase = "block",
         NEW t \in TransactionRecords, NEW code \in Codes,
         t.permanentlyFailed => code = "Unknown"
  PROVE  LET h == ContinueCommit(r, t, code)
         IN  /\ h \in Runners /\ RunnerOK(h)
             /\ h.phase = "committing" => ~ t.writeError /\ ~ t.permanentlyFailed
             /\ h.lost = r.lost
             /\ h.result # "Ok"
<1>1. CASE code # "Ok"
  BY <1>1, ErrorHandled DEF ContinueCommit
<1>2. CASE code = "Ok" /\ t.writeError
  <2>1. ~ t.permanentlyFailed /\ "Permanent" \in Codes /\ "Permanent" # "Ok"
    BY <1>2 DEF Codes
  <2> QED
    BY <1>2, <2>1, ResultDispatched DEF ContinueCommit
<1>3. CASE code = "Ok" /\ ~ t.writeError
  BY <1>3 DEF ContinueCommit, RunnerOK, Runners, Phases, Codes
<1> QED
  BY <1>1, <1>2, <1>3

-----------------------------------------------------------------------------
(* The transaction. *)

LEMMA NewTransactionOK ==
  NewTransaction \in TransactionRecords /\ TransOK(NewTransaction)
BY DEF NewTransaction, TransactionRecords, TransOK, HasRead, WrittenBy, Versions, Unread

LEMMA PreconditionTyped ==
  ASSUME NEW t \in TransactionRecords, NEW k \in Keys
  PROVE  CreatePrecondition(t, k) \in Preconditions
BY DEF CreatePrecondition, Preconditions, TransactionRecords, HasRead, Versions, Unread

\* A write whose precondition asks for the version read, when it is the first one of
\* a document that was read, keeps a transaction sound.
LEMMA WriteKeepsOK ==
  ASSUME NEW t \in TransactionRecords, TransOK(t), NEW k \in Keys,
         NEW op \in {"set", "update", "delete"}, NEW pre \in Preconditions,
         k \notin t.written /\ HasRead(t, k) => pre = StillAt(t.reads[k])
  PROVE  /\ WriteMutation(t, k, op, pre) \in TransactionRecords
         /\ TransOK(WriteMutation(t, k, op, pre))
<1> DEFINE m == [key |-> k, op |-> op, pre |-> pre]
           w == WriteMutation(t, k, op, pre)
           n == Len(t.mutations)
<1>1. m \in Mutations /\ t.mutations \in Seq(Mutations) /\ n \in Nat
  BY DEF Mutations, TransactionRecords
<1>2. /\ w.mutations = Append(t.mutations, m) /\ w.written = t.written \cup {k}
      /\ w.reads = t.reads /\ w.writeError = t.writeError
      /\ w.permanentlyFailed = t.permanentlyFailed
      /\ w \in TransactionRecords
  <2> HIDE DEF m
  <2>1. w.mutations \in Seq(Mutations)
    BY <1>1 DEF WriteMutation, TransactionRecords, m
  <2> QED
    BY <2>1 DEF WriteMutation, TransactionRecords, m
<1>3. /\ Len(w.mutations) = n + 1 /\ DOMAIN w.mutations = 1..(n + 1)
      /\ w.mutations[n + 1] = m
      /\ \A i \in 1..n : w.mutations[i] = t.mutations[i]
      /\ DOMAIN t.mutations = 1..n
  BY <1>1, <1>2
<1>4. SUFFICES ASSUME ~ t.writeError
               PROVE  /\ w.written = WrittenBy(w.mutations)
                      /\ \A l \in Keys : HasRead(w, l) /\ l \in w.written =>
                           \E i \in DOMAIN w.mutations :
                               FirstWriteAsks(w.mutations, i, l, w.reads[l])
  BY <1>2 DEF TransOK
<1>5. t.written = WrittenBy(t.mutations)
  BY <1>4 DEF TransOK
<1>6. w.written = WrittenBy(w.mutations)
  BY <1>1, <1>2, <1>3, <1>5 DEF WrittenBy
<1>7. ASSUME NEW l \in Keys, HasRead(w, l), l \in w.written
      PROVE  \E i \in DOMAIN w.mutations : FirstWriteAsks(w.mutations, i, l, w.reads[l])
  <2>1. HasRead(t, l)
    BY <1>2, <1>7 DEF HasRead
  <2>2. CASE l \in t.written
    <3>1. PICK i \in 1..n : FirstWriteAsks(t.mutations, i, l, t.reads[l])
      BY <1>3, <1>4, <2>1, <2>2 DEF TransOK
    <3>2. FirstWriteAsks(w.mutations, i, l, w.reads[l])
      BY <1>1, <1>2, <1>3, <3>1 DEF FirstWriteAsks
    <3> QED
      BY <1>1, <1>3, <3>2
  <2>3. CASE l \notin t.written
    <3>1. l = k /\ pre = StillAt(t.reads[k])
      BY <1>2, <1>7, <2>1, <2>3
    <3>2. \A j \in 1..n : t.mutations[j].key # k
      BY <1>3, <1>5, <2>3, <3>1 DEF WrittenBy
    <3>3. FirstWriteAsks(w.mutations, n + 1, l, w.reads[l])
      BY <1>1, <1>2, <1>3, <3>1, <3>2 DEF FirstWriteAsks
    <3> QED
      BY <1>1, <1>3, <3>3
  <2> QED
    BY <2>2, <2>3
<1> QED
  BY <1>6, <1>7

\* Set, Delete and Update keep a transaction sound: an update of a document read as
\* missing leaves it without a mutation but unable to commit.
LEMMA WritesKeepOK ==
  ASSUME NEW t \in TransactionRecords, TransOK(t), NEW k \in Keys,
         NEW w \in {Set(t, k), Update(t, k), Delete(t, k)}
  PROVE  w \in TransactionRecords /\ TransOK(w) /\ w.calls = t.calls
<1> DEFINE p == CreatePrecondition(t, k)
<1>1. /\ p \in Preconditions
      /\ k \notin t.written /\ HasRead(t, k) => p = StillAt(t.reads[k])
  BY PreconditionTyped DEF CreatePrecondition, StillAt
<1>2. \A op, pre : WriteMutation(t, k, op, pre).calls = t.calls
  BY DEF WriteMutation, TransactionRecords
<1> HIDE DEF p
<1>3. CASE w = Set(t, k)
  BY <1>1, <1>2, <1>3, WriteKeepsOK DEF Set, p
<1>4. CASE w = Delete(t, k)
  BY <1>1, <1>2, <1>4, WriteKeepsOK DEF Delete, p
<1>5. CASE w = Update(t, k) /\ CreateUpdatePrecondition(t, k) = {}
  BY <1>5 DEF Update, TransactionRecords, TransOK
<1>6. CASE w = Update(t, k) /\ CreateUpdatePrecondition(t, k) # {}
  <2>1. PICK q : CreateUpdatePrecondition(t, k) = {q}
    BY <1>6 DEF CreateUpdatePrecondition
  <2>2. /\ q \in Preconditions
        /\ k \notin t.written /\ HasRead(t, k) => q = StillAt(t.reads[k])
    BY <2>1 DEF CreateUpdatePrecondition, StillAt, Preconditions, TransactionRecords,
                HasRead, Versions, Unread
  <2>3. w = WriteMutation(t, k, "update", q)
    BY <1>6, <2>1 DEF Update
  <2> QED
    BY <1>2, <2>2, <2>3, WriteKeepsOK
<1> QED
  BY <1>3, <1>4, <1>5, <1>6

\* A read is recorded only while there is no write.
LEMMA ReadKeepsOK ==
  ASSUME NEW t \in TransactionRecords, TransOK(t), t.mutations = <<>>,
         NEW k \in Keys, NEW v \in Versions, RecordVersion(t, k, v).status = "Ok"
  PROVE  LET r == RecordVersion(t, k, v).trans
         IN  r \in TransactionRecords /\ TransOK(r) /\ r.calls = t.calls
BY DEF RecordVersion, TransactionRecords, TransOK, HasRead, WrittenBy

\* What a sound transaction sends tests every read.
LEMMA RequestTested ==
  ASSUME NEW x \in Txns, NEW t \in TransactionRecords, TransOK(t), ~ t.writeError
  PROVE  CommitRequest(x, t) \in Requests /\ ReadsTested(CommitRequest(x, t))
<1> DEFINE c == CommitRequest(x, t)
<1>1. /\ c.mutations = t.mutations /\ c.reads = t.reads /\ c.txn = x
      /\ c.verifies = {[key |-> k, pre |-> CreatePrecondition(t, k)] : k \in Unwritten(t)}
  BY DEF CommitRequest
<1>2. c \in Requests
  <2>1. c.verifies \subseteq [key : Keys, pre : Preconditions]
    BY <1>1, PreconditionTyped DEF Unwritten
  <2> QED
    BY <1>1, <2>1 DEF Requests, CommitRequest, TransactionRecords
<1>3. ASSUME NEW k \in Keys, c.reads[k] # Unread
      PROVE  \/ \E i \in DOMAIN c.mutations : FirstWriteAsks(c.mutations, i, k, c.reads[k])
             \/ [key |-> k, pre |-> StillAt(c.reads[k])] \in c.verifies
  <2>1. HasRead(t, k)
    BY <1>1, <1>3 DEF HasRead
  <2>2. CASE k \in t.written
    BY <1>1, <2>1, <2>2 DEF TransOK
  <2>3. CASE k \notin t.written
    <3>1. k \in Unwritten(t)
      BY <2>1, <2>3 DEF TransOK, Unwritten, WrittenBy
    <3>2. CreatePrecondition(t, k) = StillAt(t.reads[k])
      BY <2>1, <2>3 DEF CreatePrecondition, StillAt
    <3> QED
      BY <1>1, <3>1, <3>2
  <2> QED
    BY <2>2, <2>3
<1> QED
  BY <1>2, <1>3 DEF ReadsTested

-----------------------------------------------------------------------------
(* The backend. *)

\* The precondition of a version that was read holds only at that version.
LEMMA StillAtHolds ==
  ASSUME NEW v \in Versions, NEW old \in Versions, PreconditionHolds(StillAt(v), old)
  PROVE  old = v
BY DEF StillAt, PreconditionHolds, None

\* A commit that tests its reads and that the backend accepts has read the present.
LEMMA AcceptedReadsAreCurrent ==
  ASSUME version \in [Keys -> Versions], NEW c \in Requests, ReadsTested(c),
         Failing(c) = {}, NEW k \in Keys
  PROVE  c.reads[k] \in {Unread, version[k]}
<1> DEFINE v == c.reads[k]
<1>1. SUFFICES ASSUME v # Unread PROVE version[k] = v
  OBVIOUS
<1>2. v \in Versions /\ version[k] \in Versions
  BY <1>1 DEF Requests
<1>3. CASE \E i \in DOMAIN c.mutations : FirstWriteAsks(c.mutations, i, k, v)
  <2>1. PICK i \in DOMAIN c.mutations : FirstWriteAsks(c.mutations, i, k, v)
    BY <1>3
  <2>2. SeenBy(c.mutations, i) = version[k]
    BY <2>1 DEF SeenBy, FirstWriteAsks
  <2>3. PreconditionHolds(c.mutations[i].pre, SeenBy(c.mutations, i))
    BY <2>1 DEF Failing
  <2> QED
    BY <1>2, <2>1, <2>2, <2>3, StillAtHolds DEF FirstWriteAsks
<1>4. CASE [key |-> k, pre |-> StillAt(v)] \in c.verifies
  <2>1. PreconditionHolds(StillAt(v), version[k])
    BY <1>4 DEF Failing
  <2> QED
    BY <1>2, <2>1, StillAtHolds
<1> QED
  BY <1>1, <1>3, <1>4 DEF ReadsTested

LEMMA ApplyTyped ==
  ASSUME version \in [Keys -> Versions], clock \in Nat, NEW c, Apply(c)
  PROVE  version' \in [Keys -> Versions] /\ clock' \in Nat
BY DEF Apply, Versions, None

-----------------------------------------------------------------------------
(* The steps. *)

\* A step of transaction x leaves the invariant when its runner and its transaction
\* are sound and the rest of the state is.
LEMMA TransactionStep ==
  ASSUME Inv, NEW x \in Txns, NEW r \in Runners, NEW t \in TransactionRecords,
         RunnerOK(r), TransOK(t), r.phase = "committing" => ~ t.writeError,
         runner' = [runner EXCEPT ![x] = r], trans' = [trans EXCEPT ![x] = t],
         version' \in [Keys -> Versions], clock' \in Nat, applied' \in [Txns -> Nat],
         strays' \subseteq Requests, IsFiniteSet(strays'),
         \A c \in strays' : ReadsTested(c),
         \A y \in Txns : AppliedOK(y)'
  PROVE  Inv'
<1>1. /\ runner \in [Txns -> Runners] /\ trans \in [Txns -> TransactionRecords]
      /\ \A y \in Txns : RunnerOK(runner[y]) /\ TransOK(trans[y])
      /\ \A y \in Txns : Committing(y) => ~ trans[y].writeError
  BY DEF Inv, TypeOK, Runners, TransactionRecords
<1>2. runner' \in [Txns -> Runners] /\ trans' \in [Txns -> TransactionRecords]
  BY <1>1
<1>3. TypeOK'
  BY <1>2 DEF TypeOK, Runners, TransactionRecords
<1>4. \A y \in Txns : RunnerOK(runner'[y]) /\ TransOK(trans'[y])
  BY <1>1
<1>5. \A y \in Txns : Committing(y)' => ~ trans'[y].writeError
  BY <1>1 DEF Committing
<1>6. \A c \in strays' : ReadsTested(c)
  OBVIOUS
<1> QED
  BY <1>3, <1>4, <1>5, <1>6 DEF Inv

\* What the invariant gives for one transaction.
LEMMA TransactionParts ==
  ASSUME Inv, NEW x \in Txns
  PROVE  /\ runner[x] \in Runners /\ RunnerOK(runner[x])
         /\ trans[x] \in TransactionRecords /\ TransOK(trans[x])
         /\ Committing(x) => ~ trans[x].writeError
         /\ runner[x].phase # "done" => runner[x].result = "none"
BY DEF Inv, TypeOK, Runners, TransactionRecords, RunnerOK

\* A step of x at which the backend takes no part.
LEMMA LocalStep ==
  ASSUME Inv, NEW x \in Txns, NEW r \in Runners, NEW t \in TransactionRecords,
         RunnerOK(r), TransOK(t), r.phase = "committing" => ~ t.writeError,
         r.lost = runner[x].lost, r.result # "Ok", runner[x].result = "none",
         runner' = [runner EXCEPT ![x] = r], trans' = [trans EXCEPT ![x] = t],
         UNCHANGED <<version, clock, strays, applied>>
  PROVE  Inv'
<1>1. /\ version' \in [Keys -> Versions] /\ clock' \in Nat /\ applied' \in [Txns -> Nat]
      /\ strays' \subseteq Requests /\ IsFiniteSet(strays')
      /\ \A c \in strays' : ReadsTested(c)
  BY DEF Inv, TypeOK
<1>2. ASSUME NEW y \in Txns PROVE AppliedOK(y)'
  <2>1. runner'[y].lost = runner[y].lost
        /\ (runner'[y].result = "Ok" <=> runner[y].result = "Ok")
    BY DEF Inv, TypeOK
  <2>2. AppliedOK(y)
    BY DEF Inv
  <2>3. StraysOf(y)' = StraysOf(y)
    BY DEF StraysOf
  <2> QED
    BY <2>1, <2>2, <2>3 DEF AppliedOK
<1> QED
  BY <1>1, <1>2, TransactionStep

\* The block ends.
LEMMA EndBlockStep ==
  ASSUME Inv, NEW x \in Txns, runner[x].phase = "block",
         NEW t \in TransactionRecords, TransOK([t EXCEPT !.permanentlyFailed = FALSE]),
         NEW code \in Codes, t.permanentlyFailed => code = "Unknown",
         EndBlock(x, t, code)
  PROVE  Inv'
<1> DEFINE r == ContinueCommit(runner[x], t, code)
           n == IF r.phase = "committing" THEN [t EXCEPT !.calls = 0] ELSE NewTransaction
<1>1. /\ runner[x] \in Runners /\ RunnerOK(runner[x]) /\ runner[x].result = "none"
  BY TransactionParts
<1>2. /\ r \in Runners /\ RunnerOK(r)
      /\ r.phase = "committing" => ~ t.writeError /\ ~ t.permanentlyFailed
      /\ r.lost = runner[x].lost /\ r.result # "Ok"
  BY <1>1, BlockEnded
<1>3. runner' = [runner EXCEPT ![x] = r] /\ trans' = [trans EXCEPT ![x] = n]
      /\ UNCHANGED <<version, clock, strays, applied>>
  BY DEF EndBlock
<1> HIDE DEF r
<1>4. CASE r.phase = "committing"
  <2>1. n = [t EXCEPT !.calls = 0] /\ ~ t.permanentlyFailed /\ ~ t.writeError
    BY <1>2, <1>4
  <2>2. n \in TransactionRecords /\ n.writeError = t.writeError
    BY <2>1 DEF TransactionRecords
  <2>3. TransOK(n)
    BY <2>1 DEF TransOK, TransactionRecords, HasRead
  <2> HIDE DEF n
  <2> QED
    BY <1>1, <1>2, <1>3, <2>1, <2>2, <2>3, LocalStep
<1>5. CASE r.phase # "committing"
  <2>1. n = NewTransaction
    BY <1>5
  <2> HIDE DEF n
  <2> QED
    BY <1>1, <1>2, <1>3, <1>5, <2>1, LocalStep, NewTransactionOK
<1> QED
  BY <1>4, <1>5

\* The block goes on.
LEMMA ContinueStep ==
  ASSUME Inv, NEW x \in Txns, InBlock(x), NEW t \in TransactionRecords, TransOK(t),
         t.calls = trans[x].calls, Continue(x, t)
  PROVE  Inv'
<1> DEFINE n == [t EXCEPT !.calls = t.calls + 1]
<1>1. trans[x] \in TransactionRecords /\ runner[x] \in Runners /\ RunnerOK(runner[x])
      /\ runner[x].result = "none" /\ runner[x].phase = "block"
  BY TransactionParts DEF InBlock
<1>2. t.calls + 1 \in 0..MaxCalls
  BY <1>1 DEF TransactionRecords, InBlock
<1>3. n \in TransactionRecords /\ TransOK(n)
  BY <1>2 DEF TransactionRecords, TransOK, HasRead
<1>4. /\ runner' = [runner EXCEPT ![x] = runner[x]]
      /\ trans' = [trans EXCEPT ![x] = n]
      /\ UNCHANGED <<version, clock, strays, applied>>
  BY DEF Continue, Inv, TypeOK
<1> HIDE DEF n
<1> QED
  BY <1>1, <1>3, <1>4, LocalStep

\* A commit leaves the client: the answer arrives, or the client gives up.
LEMMA EndCommitParts ==
  ASSUME Inv, NEW x \in Txns, Committing(x), NEW r \in Runners, RunnerOK(r),
         r.phase = "committing", NEW code \in Codes, EndCommit(x, r, code)
  PROVE  LET h == DispatchResult(r, trans[x], code)
         IN  /\ h \in Runners /\ RunnerOK(h) /\ h.phase # "committing"
             /\ h.lost = r.lost
             /\ code = "Ok" <=> h.result = "Ok"
             /\ runner' = [runner EXCEPT ![x] = h]
             /\ trans' = [trans EXCEPT ![x] = NewTransaction]
<1>1. trans[x] \in TransactionRecords /\ ~ trans[x].permanentlyFailed
  BY TransactionParts DEF TransOK
<1> QED
  BY <1>1, ResultDispatched DEF EndCommit

LEMMA LookupStep ==
  ASSUME Inv, NEW x \in Txns, NEW k \in Keys, Lookup(x, k)
  PROVE  Inv'
<1> DEFINE t == trans[x]
           answer == RecordVersion(t, k, version[k])
<1>1. /\ t \in TransactionRecords /\ TransOK(t) /\ version[k] \in Versions
      /\ runner[x].phase = "block" /\ InBlock(x) /\ ~ t.permanentlyFailed
  BY TransactionParts DEF Inv, TypeOK, Lookup, InBlock, TransOK
<1>2. TransOK([t EXCEPT !.permanentlyFailed = FALSE])
  BY <1>1 DEF TransOK, TransactionRecords, HasRead
<1>3. \/ \E code \in {"Permanent", "Unavailable", "Aborted"} : EndBlock(x, t, code)
      \/ t.mutations = <<>> /\ answer.status = "Ok" /\ Continue(x, answer.trans)
  BY DEF Lookup, RecordVersion
<1>4. CASE \E code \in {"Permanent", "Unavailable", "Aborted"} : EndBlock(x, t, code)
  <2>1. PICK code \in {"Permanent", "Unavailable", "Aborted"} : EndBlock(x, t, code)
    BY <1>4
  <2>2. code \in Codes
    BY DEF Codes
  <2> QED
    BY <1>1, <1>2, <2>1, <2>2, EndBlockStep
<1>5. CASE t.mutations = <<>> /\ answer.status = "Ok" /\ Continue(x, answer.trans)
  <2>1. /\ answer.trans \in TransactionRecords /\ TransOK(answer.trans)
        /\ answer.trans.calls = t.calls
    BY <1>1, <1>5, ReadKeepsOK
  <2> HIDE DEF answer
  <2> QED
    BY <1>1, <1>5, <2>1, ContinueStep
<1> QED
  BY <1>3, <1>4, <1>5

LEMMA WriteStep ==
  ASSUME Inv, NEW x \in Txns, NEW k \in Keys, Write(x, k)
  PROVE  Inv'
<1>1. PICK t \in {Set(trans[x], k), Update(trans[x], k), Delete(trans[x], k)} :
          Continue(x, t)
  BY DEF Write
<1>2. trans[x] \in TransactionRecords /\ TransOK(trans[x])
  BY TransactionParts
<1>3. t \in TransactionRecords /\ TransOK(t) /\ t.calls = trans[x].calls
  BY <1>2, WritesKeepOK
<1> QED
  BY <1>1, <1>3, ContinueStep DEF Write

LEMMA EndOfBlockStep ==
  ASSUME Inv, NEW x \in Txns, FinishBlock(x) \/ FailBlock(x)
  PROVE  Inv'
<1>1. trans[x] \in TransactionRecords /\ TransOK(trans[x]) /\ runner[x].phase = "block"
  BY TransactionParts DEF FinishBlock, FailBlock
<1>2. CASE FinishBlock(x)
  <2>1. TransOK([trans[x] EXCEPT !.permanentlyFailed = FALSE])
    BY <1>1 DEF TransOK, TransactionRecords, HasRead
  <2>2. "Ok" \in Codes /\ ~ trans[x].permanentlyFailed
    BY <1>1 DEF Codes, TransOK
  <2> QED
    BY <1>1, <1>2, <2>1, <2>2, EndBlockStep DEF FinishBlock
<1>3. CASE FailBlock(x)
  <2> DEFINE t == [trans[x] EXCEPT !.permanentlyFailed = TRUE]
  <2>1. t \in TransactionRecords
    BY <1>1 DEF TransactionRecords
  <2>2. TransOK([t EXCEPT !.permanentlyFailed = FALSE])
    BY <1>1 DEF TransOK, TransactionRecords, HasRead
  <2>3. "Unknown" \in Codes /\ EndBlock(x, t, "Unknown")
    BY <1>3 DEF Codes, FailBlock
  <2> HIDE DEF t
  <2> QED
    BY <1>1, <2>1, <2>2, <2>3, EndBlockStep
<1> QED
  BY <1>2, <1>3

LEMMA ScheduleStep ==
  ASSUME Inv, NEW x \in Txns, Transaction(x) \/ BackoffElapsed(x)
  PROVE  Inv'
<1>1. /\ runner[x] \in Runners /\ RunnerOK(runner[x]) /\ runner[x].result = "none"
      /\ trans[x] \in TransactionRecords /\ TransOK(trans[x])
  BY TransactionParts DEF Transaction, BackoffElapsed
<1>2. trans' = [trans EXCEPT ![x] = trans[x]] /\ UNCHANGED <<version, clock, strays, applied>>
  BY DEF Transaction, BackoffElapsed, Inv, TypeOK
<1>3. CASE Transaction(x)
  <2> DEFINE r == Run(runner[x])
  <2>1. runner[x].phase = "new" /\ runner' = [runner EXCEPT ![x] = r]
    BY <1>3 DEF Transaction
  <2>2. runner[x].attemptsRemaining = MaxAttempts /\ runner[x].attempts = 0
        /\ runner[x].attemptsRemaining - 1 \in -1..MaxAttempts
    BY <1>1, <2>1 DEF RunnerOK
  <2>3. r \in Runners
    BY <1>1, <2>2 DEF Run, Runners, Phases
  <2>4. /\ r.attemptsRemaining = MaxAttempts - 1 /\ r.phase = "backoff" /\ r.attempts = 0
        /\ r.lost = runner[x].lost /\ r.result = "none"
    BY <1>1, <2>2 DEF Run, Runners
  <2>5. RunnerOK(r)
    BY <2>4 DEF RunnerOK
  <2> HIDE DEF r
  <2> QED
    BY <1>1, <1>2, <2>1, <2>3, <2>4, <2>5, LocalStep
<1>4. CASE BackoffElapsed(x)
  <2> DEFINE r == [runner[x] EXCEPT !.phase = "block", !.attempts = @ + 1]
  <2>1. runner[x].phase = "backoff" /\ runner' = [runner EXCEPT ![x] = r]
    BY <1>4 DEF BackoffElapsed, Inv, TypeOK
  <2>2. r \in Runners
    <3>1. runner[x].attempts + 1 \in Nat
      BY <1>1 DEF Runners
    <3> QED
      BY <1>1, <3>1 DEF Runners, Phases
  <2>3. /\ r.attemptsRemaining = runner[x].attemptsRemaining /\ r.phase = "block"
        /\ r.attempts = runner[x].attempts + 1
        /\ r.lost = runner[x].lost /\ r.result = "none"
        /\ runner[x].attemptsRemaining \in Int
    BY <1>1 DEF Runners
  <2>4. RunnerOK(r)
    BY <1>1, <2>1, <2>3 DEF RunnerOK
  <2> HIDE DEF r
  <2> QED
    BY <1>1, <1>2, <2>1, <2>2, <2>3, <2>4, LocalStep
<1> QED
  BY <1>3, <1>4

LEMMA RefuseStep ==
  ASSUME Inv, NEW x \in Txns, Refuse(x)
  PROVE  Inv'
<1>1. PICK code \in {RefusalCode(pre) : pre \in Failing(CommitRequest(x, trans[x]))}
                        \cup {"Permanent"} : EndCommit(x, runner[x], code)
  BY DEF Refuse
<1>2. /\ runner[x] \in Runners /\ RunnerOK(runner[x]) /\ runner[x].phase = "committing"
      /\ runner[x].result = "none" /\ Committing(x) /\ ~ trans[x].writeError
      /\ trans[x] \in TransactionRecords /\ TransOK(trans[x])
  BY TransactionParts DEF Refuse, Committing
<1>3. ASSUME NEW pre \in Failing(CommitRequest(x, trans[x]))
      PROVE  RefusalCode(pre) \in {"Aborted", "AlreadyExists", "Permanent"}
  <2> DEFINE c == CommitRequest(x, trans[x])
  <2>1. c \in Requests
    BY <1>2, RequestTested
  <2> HIDE DEF c
  <2>2. pre \in Preconditions /\ pre.kind # "None"
    <3>1. CASE \E j \in DOMAIN c.mutations : pre = c.mutations[j].pre
                   /\ ~ PreconditionHolds(pre, SeenBy(c.mutations, j))
      <4>1. PICK j \in DOMAIN c.mutations : pre = c.mutations[j].pre
                   /\ ~ PreconditionHolds(pre, SeenBy(c.mutations, j))
        BY <3>1
      <4>2. c.mutations[j] \in Mutations
        BY <2>1 DEF Requests
      <4> QED
        BY <4>1, <4>2 DEF Mutations, PreconditionHolds
    <3>2. CASE \E u \in c.verifies : pre = u.pre /\ ~ PreconditionHolds(pre, version[u.key])
      <4>1. PICK u \in c.verifies : pre = u.pre /\ ~ PreconditionHolds(pre, version[u.key])
        BY <3>2
      <4>2. u \in [key : Keys, pre : Preconditions]
        BY <2>1 DEF Requests
      <4> QED
        BY <4>1, <4>2 DEF PreconditionHolds
    <3> QED
      BY <1>3, <3>1, <3>2 DEF Failing, c
  <2> QED
    BY <2>2 DEF RefusalCode, Preconditions
<1>4. code \in Codes /\ code # "Ok"
  BY <1>1, <1>3 DEF Codes
<1> DEFINE h == DispatchResult(runner[x], trans[x], code)
<1>5. /\ h \in Runners /\ RunnerOK(h) /\ h.phase # "committing"
      /\ h.lost = runner[x].lost /\ h.result # "Ok"
      /\ runner' = [runner EXCEPT ![x] = h]
      /\ trans' = [trans EXCEPT ![x] = NewTransaction]
  BY <1>1, <1>2, <1>4, EndCommitParts
<1> HIDE DEF h
<1> QED
  BY <1>2, <1>5, LocalStep, NewTransactionOK DEF Refuse

\* One more stray of x at most, and one answer of x lost.
LEMMA LoseAnswerStep ==
  ASSUME Inv, NEW x \in Txns, LoseAnswer(x)
  PROVE  Inv'
<1> DEFINE c == CommitRequest(x, trans[x])
           r == [runner[x] EXCEPT !.lost = @ + 1]
           h == DispatchResult(r, trans[x], "Unavailable")
<1>1. /\ runner[x] \in Runners /\ RunnerOK(runner[x]) /\ runner[x].phase = "committing"
      /\ runner[x].result = "none" /\ Committing(x) /\ ~ trans[x].writeError
      /\ trans[x] \in TransactionRecords /\ TransOK(trans[x])
  BY TransactionParts DEF LoseAnswer, Committing
<1>2. c \in Requests /\ ReadsTested(c) /\ c.txn = x
  BY <1>1, RequestTested DEF CommitRequest
<1>3. /\ strays' = strays \cup {c} /\ UNCHANGED <<version, clock, applied>>
      /\ EndCommit(x, r, "Unavailable")
  BY DEF LoseAnswer
<1>4. r \in Runners /\ RunnerOK(r) /\ r.phase = "committing"
      /\ r.lost = runner[x].lost + 1
  <2>1. runner[x].lost + 1 \in Nat
    BY <1>1 DEF Runners
  <2> QED
    BY <1>1, <2>1 DEF Runners, RunnerOK
<1>5. "Unavailable" \in Codes
  BY DEF Codes
<1> HIDE DEF c, r
<1>6. /\ h \in Runners /\ RunnerOK(h) /\ h.phase # "committing"
      /\ h.lost = runner[x].lost + 1 /\ h.result # "Ok"
      /\ runner' = [runner EXCEPT ![x] = h]
      /\ trans' = [trans EXCEPT ![x] = NewTransaction]
  BY <1>1, <1>3, <1>4, <1>5, EndCommitParts
<1> HIDE DEF h
<1>7. /\ version' \in [Keys -> Versions] /\ clock' \in Nat /\ applied' \in [Txns -> Nat]
      /\ strays' \subseteq Requests /\ IsFiniteSet(strays')
      /\ \A d \in strays' : ReadsTested(d)
  BY <1>2, <1>3, FS_AddElement DEF Inv, TypeOK
<1>8. ASSUME NEW y \in Txns PROVE AppliedOK(y)'
  <2>1. AppliedOK(y) /\ IsFiniteSet(strays) /\ runner[y].lost \in Nat /\ applied[y] \in Nat
    BY DEF Inv, TypeOK
  <2>2. IsFiniteSet(StraysOf(y)) /\ Cardinality(StraysOf(y)) \in Nat
    BY <2>1, FS_Subset, FS_CardinalityType DEF StraysOf
  <2>3. CASE y # x
    <3>1. StraysOf(y)' = StraysOf(y) /\ runner'[y] = runner[y] /\ applied'[y] = applied[y]
      BY <1>2, <1>3, <1>6, <2>3 DEF StraysOf, Inv, TypeOK
    <3> QED
      BY <2>1, <3>1 DEF AppliedOK
  <2>4. CASE y = x
    <3>1. StraysOf(y)' = StraysOf(y) \cup {c}
      BY <1>2, <1>3, <2>4 DEF StraysOf
    <3>2. Cardinality(StraysOf(y)') <= Cardinality(StraysOf(y)) + 1
      <4>1. Cardinality(StraysOf(y) \cup {c}) \in
               {Cardinality(StraysOf(y)), Cardinality(StraysOf(y)) + 1}
        BY <2>2, FS_AddElement, Zenon
      <4> QED
        BY <2>2, <3>1, <4>1
    <3>3. runner'[y] = h /\ applied'[y] = applied[y]
      BY <1>3, <1>6, <2>4 DEF Inv, TypeOK
    <3>4. Cardinality(StraysOf(y)') \in Nat
      <4>1. IsFiniteSet(StraysOf(y)')
        BY <2>2, <3>1, FS_AddElement
      <4> QED
        BY <4>1, FS_CardinalityType
    <3> QED
      BY <1>1, <1>6, <2>1, <2>2, <2>4, <3>2, <3>3, <3>4 DEF AppliedOK
  <2> QED
    BY <2>3, <2>4
<1> QED
  BY <1>6, <1>7, <1>8, TransactionStep, NewTransactionOK

\* The transaction has succeeded and is applied once more.
LEMMA CommitStep ==
  ASSUME Inv, NEW x \in Txns, Commit(x)
  PROVE  Inv'
<1> DEFINE h == DispatchResult(runner[x], trans[x], "Ok")
<1>1. /\ runner[x] \in Runners /\ RunnerOK(runner[x]) /\ runner[x].phase = "committing"
      /\ runner[x].result = "none" /\ Committing(x)
  BY TransactionParts DEF Commit, Committing
<1>2. /\ applied' = [applied EXCEPT ![x] = @ + 1] /\ UNCHANGED strays
      /\ Apply(CommitRequest(x, trans[x])) /\ EndCommit(x, runner[x], "Ok")
  BY DEF Commit
<1>3. "Ok" \in Codes
  BY DEF Codes
<1>4. /\ h \in Runners /\ RunnerOK(h) /\ h.phase # "committing"
      /\ h.lost = runner[x].lost /\ h.result = "Ok"
      /\ runner' = [runner EXCEPT ![x] = h]
      /\ trans' = [trans EXCEPT ![x] = NewTransaction]
  BY <1>1, <1>2, <1>3, EndCommitParts
<1> HIDE DEF h
<1>5. version' \in [Keys -> Versions] /\ clock' \in Nat
  BY <1>2, ApplyTyped DEF Inv, TypeOK
<1>6. /\ applied' \in [Txns -> Nat]
      /\ strays' \subseteq Requests /\ IsFiniteSet(strays')
      /\ \A c \in strays' : ReadsTested(c)
  BY <1>2 DEF Inv, TypeOK
<1>7. ASSUME NEW y \in Txns PROVE AppliedOK(y)'
  <2>1. AppliedOK(y) /\ IsFiniteSet(strays) /\ runner[y].lost \in Nat /\ applied[y] \in Nat
    BY DEF Inv, TypeOK
  <2>2. Cardinality(StraysOf(y)) \in Nat /\ StraysOf(y)' = StraysOf(y)
    BY <1>2, <2>1, FS_Subset, FS_CardinalityType DEF StraysOf
  <2>3. CASE y # x
    <3>1. runner'[y] = runner[y] /\ applied'[y] = applied[y]
      BY <1>2, <1>4, <2>3 DEF Inv, TypeOK
    <3> QED
      BY <2>1, <2>2, <3>1 DEF AppliedOK
  <2>4. CASE y = x
    <3>1. runner'[y] = h /\ applied'[y] = applied[y] + 1
      BY <1>2, <1>4, <2>4 DEF Inv, TypeOK
    <3> QED
      BY <1>1, <1>4, <2>1, <2>2, <2>4, <3>1 DEF AppliedOK
  <2> QED
    BY <2>3, <2>4
<1> QED
  BY <1>4, <1>5, <1>6, <1>7, TransactionStep, NewTransactionOK

\* A stray turns into an application.
LEMMA ServeStrayStep ==
  ASSUME Inv, NEW c \in strays, ServeStray(c)
  PROVE  Inv'
<1>1. /\ Apply(c) /\ strays' = strays \ {c} /\ applied' = [applied EXCEPT ![c.txn] = @ + 1]
      /\ UNCHANGED <<runner, trans>> /\ c \in Requests /\ c.txn \in Txns
  BY DEF ServeStray, Inv, TypeOK, Requests
<1>2. version' \in [Keys -> Versions] /\ clock' \in Nat
  BY <1>1, ApplyTyped DEF Inv, TypeOK
<1>3. TypeOK' /\ IsFiniteSet(strays')
  <2>1. applied' \in [Txns -> Nat] /\ strays' \subseteq Requests
    BY <1>1 DEF Inv, TypeOK
  <2>2. IsFiniteSet(strays')
    BY <1>1, FS_RemoveElement DEF Inv
  <2> QED
    BY <1>1, <1>2, <2>1, <2>2 DEF Inv, TypeOK
<1>4. ASSUME NEW y \in Txns PROVE AppliedOK(y)'
  <2>1. AppliedOK(y) /\ IsFiniteSet(strays) /\ runner[y].lost \in Nat /\ applied[y] \in Nat
    BY DEF Inv, TypeOK
  <2>2. IsFiniteSet(StraysOf(y)) /\ Cardinality(StraysOf(y)) \in Nat
    BY <2>1, FS_Subset, FS_CardinalityType DEF StraysOf
  <2>3. CASE y # c.txn
    <3>1. StraysOf(y)' = StraysOf(y) /\ applied'[y] = applied[y] /\ runner' = runner
      BY <1>1, <2>3 DEF StraysOf, Inv, TypeOK
    <3> QED
      BY <2>1, <3>1 DEF AppliedOK
  <2>4. CASE y = c.txn
    <3>1. StraysOf(y)' = StraysOf(y) \ {c} /\ c \in StraysOf(y)
      BY <1>1, <2>4 DEF StraysOf
    <3>2. Cardinality(StraysOf(y)') = Cardinality(StraysOf(y)) - 1
      BY <2>2, <3>1, FS_RemoveElement
    <3>3. runner' = runner /\ applied'[y] = applied[y] + 1
      BY <1>1, <2>4 DEF Inv, TypeOK
    <3> QED
      BY <2>1, <2>2, <3>2, <3>3 DEF AppliedOK
  <2> QED
    BY <2>3, <2>4
<1>5. \A y \in Txns : Committing(y)' => ~ trans'[y].writeError
  BY <1>1 DEF Inv, Committing
<1>6. \A d \in strays' : ReadsTested(d)
  BY <1>1 DEF Inv
<1> QED
  BY <1>1, <1>3, <1>4, <1>5, <1>6 DEF Inv

-----------------------------------------------------------------------------
LEMMA InitInv == Init => Inv
<1> SUFFICES ASSUME Init PROVE Inv
  OBVIOUS
<1>1. \A x \in Txns : runner[x] \in Runners /\ RunnerOK(runner[x])
  BY DEF Init, Runners, RunnerOK, Phases, Codes
<1>2. TypeOK
  <2>1. runner \in [Txns -> Runners]
    BY <1>1 DEF Init
  <2>2. trans \in [Txns -> TransactionRecords]
    BY NewTransactionOK DEF Init
  <2> QED
    BY <2>1, <2>2 DEF Init, TypeOK, Runners, TransactionRecords, Versions, None
<1>3. IsFiniteSet(strays)
  BY FS_EmptySet DEF Init
<1>4. \A x \in Txns : TransOK(trans[x])
  BY NewTransactionOK DEF Init
<1>5. \A x \in Txns : Committing(x) => ~ trans[x].writeError
  BY DEF Init, Committing
<1>6. \A c \in strays : ReadsTested(c)
  BY DEF Init
<1>7. ASSUME NEW x \in Txns PROVE AppliedOK(x)
  <2>1. StraysOf(x) = {} /\ Cardinality({}) = 0
    BY FS_EmptySet DEF Init, StraysOf
  <2> QED
    BY <2>1 DEF Init, AppliedOK
<1> QED
  BY <1>1, <1>2, <1>3, <1>4, <1>5, <1>6, <1>7 DEF Inv

LEMMA NextInv == Inv /\ [Next]_vars => Inv'
<1> SUFFICES ASSUME Inv, [Next]_vars PROVE Inv'
  OBVIOUS
<1>1. CASE UNCHANGED vars
  <2>1. UNCHANGED <<runner, trans, version, clock, strays, applied>>
    BY <1>1 DEF vars
  <2>2. TypeOK' /\ IsFiniteSet(strays') /\ \A x \in Txns : AppliedOK(x)'
    BY <2>1 DEF Inv, TypeOK, AppliedOK, StraysOf
  <2> QED
    BY <2>1, <2>2 DEF Inv, Committing
<1>2. ASSUME NEW x \in Txns, Transaction(x) \/ BackoffElapsed(x) PROVE Inv'
  BY <1>2, ScheduleStep
<1>3. ASSUME NEW x \in Txns, NEW k \in Keys, Lookup(x, k) PROVE Inv'
  BY <1>3, LookupStep
<1>4. ASSUME NEW x \in Txns, NEW k \in Keys, Write(x, k) PROVE Inv'
  BY <1>4, WriteStep
<1>5. ASSUME NEW x \in Txns, FinishBlock(x) \/ FailBlock(x) PROVE Inv'
  BY <1>5, EndOfBlockStep
<1>6. ASSUME NEW x \in Txns, Commit(x) PROVE Inv'
  BY <1>6, CommitStep
<1>7. ASSUME NEW x \in Txns, Refuse(x) PROVE Inv'
  BY <1>7, RefuseStep
<1>8. ASSUME NEW x \in Txns, LoseAnswer(x) PROVE Inv'
  BY <1>8, LoseAnswerStep
<1>9. ASSUME NEW c \in strays, ServeStray(c) PROVE Inv'
  BY <1>9, ServeStrayStep
<1> QED
  BY <1>1, <1>2, <1>3, <1>4, <1>5, <1>6, <1>7, <1>8, <1>9 DEF Next

\* The inductive invariant holds of every behaviour.
THEOREM InvHolds == Spec => []Inv
BY InitInv, NextInv, PTL DEF Spec

\* The state has its type: versions recorded are versions, a block makes no more calls
\* than the bound and attemptsRemaining never falls below -1 (TransactionRunner).
THEOREM TypeCorrect == Spec => []TypeOK
<1>1. Inv => TypeOK
  BY DEF Inv
<1> QED
  BY <1>1, InvHolds, PTL

\* The maximum of 1 and the attempts allowed.
LEMMA MostAttempts ==
  Max({1, MaxAttempts}) = IF MaxAttempts = 0 THEN 1 ELSE MaxAttempts
<1> DEFINE m == IF MaxAttempts = 0 THEN 1 ELSE MaxAttempts
<1>1. m \in {1, MaxAttempts} /\ \A y \in {1, MaxAttempts} : m >= y
  OBVIOUS
<1>2. \A z \in {1, MaxAttempts} : (\A y \in {1, MaxAttempts} : z >= y) => z = m
  OBVIOUS
<1> HIDE DEF m
<1>3. (CHOOSE z \in {1, MaxAttempts} : \A y \in {1, MaxAttempts} : z >= y) = m
  BY <1>1, <1>2
<1> QED
  BY <1>3 DEF Max, m

\* For any MaxAttempts: the block runs at most MaxAttempts times, once if that is 0, and
\* the user sees a conflict or an unreachable backend only when all attempts are used
\* up (TransactionRunner::Run, HandleTransactionError).
THEOREM AttemptsUsedHolds == Spec => []AttemptsUsed
<1>1. Inv => AttemptsUsed
  <2> SUFFICES ASSUME Inv, NEW x \in Txns
               PROVE  LET m == Max({1, MaxAttempts})
                      IN  /\ runner[x].attempts <= m
                          /\ runner[x].result \in {"Aborted", "AlreadyExists", "Unavailable"}
                                => runner[x].attempts = m
    BY DEF AttemptsUsed
  <2> DEFINE m == IF MaxAttempts = 0 THEN 1 ELSE MaxAttempts
  <2>1. runner[x] \in Runners /\ RunnerOK(runner[x])
    BY TransactionParts
  <2>2. runner[x].attempts <= m
    BY <2>1 DEF Runners, RunnerOK
  <2>3. runner[x].result \in {"Aborted", "AlreadyExists", "Unavailable"} =>
           runner[x].attempts = m
    <3> SUFFICES ASSUME runner[x].result \in {"Aborted", "AlreadyExists", "Unavailable"}
                 PROVE  runner[x].attempts = m
      OBVIOUS
    <3>1. runner[x].phase = "done" /\ runner[x].attemptsRemaining <= 0
      BY <2>1 DEF RunnerOK
    <3>2. runner[x].attempts = MaxAttempts - runner[x].attemptsRemaining
          /\ runner[x].attemptsRemaining \in Int
      BY <2>1, <3>1 DEF Runners, RunnerOK
    <3>3. IF MaxAttempts = 0 THEN runner[x].attemptsRemaining = -1
                             ELSE runner[x].attemptsRemaining >= 0
      BY <2>1, <3>1 DEF RunnerOK
    <3> QED
      BY <3>1, <3>2, <3>3
  <2> QED
    BY <2>2, <2>3, MostAttempts
<1> QED
  BY <1>1, InvHolds, PTL

\* For any number of lost answers: OK means applied, an error that only attempts whose
\* answer was lost may have been (TransactionRunner::DispatchResult, ContinueCommit).
THEOREM TruthfulResultHolds == Spec => []TruthfulResult
<1>1. Inv => TruthfulResult
  <2> SUFFICES ASSUME Inv, NEW x \in Txns
               PROVE  /\ runner[x].result = "Ok" => applied[x] > 0
                      /\ runner[x].result \notin {"Ok", "none"} => applied[x] <= runner[x].lost
                      /\ applied[x] <= runner[x].lost + 1
    BY DEF TruthfulResult
  <2>1. AppliedOK(x) /\ IsFiniteSet(strays) /\ runner[x].lost \in Nat /\ applied[x] \in Nat
    BY DEF Inv, TypeOK
  <2>2. Cardinality(StraysOf(x)) \in Nat
    BY <2>1, FS_Subset, FS_CardinalityType DEF StraysOf
  <2> QED
    BY <2>1, <2>2 DEF AppliedOK
<1> QED
  BY <1>1, InvHolds, PTL

\* Serializability, for any blocks, any interleaving and any commits that arrive late:
\* what a commit has read is still there when it is applied (Transaction::Commit and
\* the preconditions of its writes).
THEOREM ReadsStillValidHolds == Spec => ReadsStillValid
<1> DEFINE Valid(x) == \E reads \in IF strays' = strays THEN {trans[x].reads}
                                    ELSE {c.reads : c \in strays \ strays'} :
                          \A k \in Keys : reads[k] \in {Unread, version[k]}
           Step == \A x \in Txns : applied'[x] > applied[x] => Valid(x)
<1>1. ASSUME Inv, [Next]_vars PROVE [Step]_vars
  <2> SUFFICES ASSUME Next, NEW x \in Txns, applied'[x] > applied[x] PROVE Valid(x)
    BY <1>1
  <2>1. applied \in [Txns -> Nat] /\ version \in [Keys -> Versions]
    BY <1>1 DEF Inv, TypeOK
  <2>2. applied' # applied
    BY <2>1
  <2>3. \/ \E y \in Txns : Commit(y)
        \/ \E c \in strays : ServeStray(c)
    BY <2>2 DEF Next, Transaction, BackoffElapsed, Lookup, Write, FinishBlock, FailBlock,
                Refuse, LoseAnswer, EndBlock, Continue
  <2>4. ASSUME NEW y \in Txns, Commit(y) PROVE Valid(x)
    <3> DEFINE c == CommitRequest(x, trans[x])
    <3>1. y = x /\ strays' = strays
      BY <2>1, <2>4 DEF Commit
    <3>2. trans[x] \in TransactionRecords /\ TransOK(trans[x]) /\ ~ trans[x].writeError
      BY <1>1, <2>4, <3>1, TransactionParts DEF Commit
    <3>3. c \in Requests /\ ReadsTested(c) /\ c.reads = trans[x].reads
      BY <3>2, RequestTested DEF CommitRequest
    <3>4. Failing(c) = {}
      BY <2>4, <3>1 DEF Commit
    <3> HIDE DEF c
    <3>5. \A k \in Keys : c.reads[k] \in {Unread, version[k]}
      BY <2>1, <3>3, <3>4, AcceptedReadsAreCurrent
    <3> QED
      BY <3>1, <3>3, <3>5
  <2>5. ASSUME NEW c \in strays, ServeStray(c) PROVE Valid(x)
    <3>1. c \in Requests /\ ReadsTested(c) /\ Failing(c) = {} /\ c \in strays \ strays'
      BY <1>1, <2>5 DEF Inv, TypeOK, ServeStray
    <3>2. \A k \in Keys : c.reads[k] \in {Unread, version[k]}
      BY <2>1, <3>1, AcceptedReadsAreCurrent
    <3> QED
      BY <3>1, <3>2
  <2> QED
    BY <2>3, <2>4, <2>5
<1> QED
  BY <1>1, InvHolds, PTL DEF Spec, ReadsStillValid

=============================================================================
