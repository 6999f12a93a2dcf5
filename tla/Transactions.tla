---------------------------- MODULE Transactions ----------------------------
(***************************************************************************)
(* Optimistic transactions.  TransactionRunner runs the user's block at    *)
(* most MaxAttempts times, each time with a new Transaction that records   *)
(* the version of every document it reads and turns them into              *)
(* preconditions of the writes it sends; the backend applies a commit      *)
(* whose preconditions hold, atomically.  A failed attempt is repeated     *)
(* after a backoff when its error is retryable.                            *)
(*                                                                         *)
(* Several transactions interleave, of one client or of several: they meet *)
(* only at the backend.  The answer to a commit may be lost, and a commit  *)
(* whose answer was given up may still be applied later.                   *)
(***************************************************************************)
EXTENDS Integers, Sequences, FiniteSetsExt, Functions

CONSTANTS
    Txns,         \* the transactions that are run
    Keys,         \* the documents
    Existing,     \* the documents that exist at the start
    MaxAttempts,  \* max_attempts, 5 by default
    MaxCalls,     \* bound on the reads and writes of one block
    MaxLost       \* bound on the commits whose answer is lost

ASSUME TransactionsAssumption ==
    /\ Existing \subseteq Keys
    /\ MaxAttempts \in Nat
    /\ MaxCalls \in Nat
    /\ MaxLost \in Nat

VARIABLES
    runner,     \* per transaction, its TransactionRunner and where it stands
    trans,      \* per transaction, the Transaction of the current attempt
    version,    \* the backend: the version of each document, None if there is none
    clock,      \* the backend: the last version given out
    strays,     \* commits the client has given up and the backend has not seen
    applied     \* per transaction, how often a commit of it was applied

vars == <<runner, trans, version, clock, strays, applied>>

None == 0       \* SnapshotVersion::None: there is no such document
Unread == -1    \* the document has no entry in read_versions_

Versions == Nat

Preconditions == [kind : {"None", "Exists", "NotExists"}]
                     \cup [kind : {"UpdateTime"}, version : Versions]

Mutations == [key : Keys, op : {"set", "update", "delete"}, pre : Preconditions]

\* What a commit sends: the writes in order and the documents to verify, and for the
\* properties the reads they rest on.
Requests == [mutations : Seq(Mutations), verifies : SUBSET [key : Keys, pre : Preconditions],
             reads : [Keys -> Versions \cup {Unread}], txn : Txns]

-----------------------------------------------------------------------------
(* Transaction. *)

NewTransaction ==
    [reads |-> [k \in Keys |-> Unread], mutations |-> <<>>, written |-> {},
     writeError |-> FALSE, permanentlyFailed |-> FALSE, calls |-> 0]

\* Transaction::GetVersion: does read_versions_ have the key?
HasRead(t, k) == t.reads[k] # Unread

\* Transaction::RecordVersion: a second read must see the version of the first.
RecordVersion(t, k, v) ==
    IF HasRead(t, k) /\ t.reads[k] # v
    THEN [status |-> "Aborted", trans |-> t]
    ELSE [status |-> "Ok", trans |-> [t EXCEPT !.reads[k] = v]]

CreatePrecondition(t, k) ==
    IF k \notin t.written /\ HasRead(t, k)
    THEN IF t.reads[k] = None THEN [kind |-> "NotExists"]
                              ELSE [kind |-> "UpdateTime", version |-> t.reads[k]]
    ELSE [kind |-> "None"]

\* Transaction::CreateUpdatePrecondition: an update of a document read as missing has
\* none, as it cannot be expressed.
CreateUpdatePrecondition(t, k) ==
    IF k \notin t.written /\ HasRead(t, k)
    THEN IF t.reads[k] = None THEN {}
                              ELSE {[kind |-> "UpdateTime", version |-> t.reads[k]]}
    ELSE {[kind |-> "Exists"]}

WriteMutation(t, k, op, pre) ==
    [t EXCEPT !.mutations = Append(@, [key |-> k, op |-> op, pre |-> pre]),
              !.written = @ \cup {k}]

Set(t, k) == WriteMutation(t, k, "set", CreatePrecondition(t, k))

Delete(t, k) == WriteMutation(t, k, "delete", CreatePrecondition(t, k))

\* An update without a precondition makes the commit fail; the document counts as
\* written all the same.
Update(t, k) ==
    IF CreateUpdatePrecondition(t, k) = {}
    THEN [t EXCEPT !.writeError = TRUE, !.written = @ \cup {k}]
    ELSE WriteMutation(t, k, "update", CHOOSE p \in CreateUpdatePrecondition(t, k) : TRUE)

\* Mutant: documents that were only read are not verified.
MutUnwritten(t) == {}

\* The documents that were read and that no mutation writes.
Unwritten(t) ==
    {k \in Keys : HasRead(t, k)} \ {t.mutations[i].key : i \in DOMAIN t.mutations}

\* What Transaction::Commit sends: the writes, and a verify for each other read.
CommitRequest(x, t) ==
    [mutations |-> t.mutations,
     verifies  |-> {[key |-> k, pre |-> CreatePrecondition(t, k)] : k \in Unwritten(t)},
     reads     |-> t.reads,
     txn       |-> x]

-----------------------------------------------------------------------------
(* TransactionRunner. *)

\* The status codes that are told apart: Aborted stands for FailedPrecondition too,
\* Permanent for what says that the request itself is wrong (InvalidArgument, NotFound,
\* PermissionDenied...), Unavailable for what does not, Unknown for an error of the block.
Codes == {"Ok", "Aborted", "AlreadyExists", "Permanent", "Unavailable", "Unknown"}

\* Datastore::IsPermanentError.
IsPermanentError(code) == code \notin {"Unavailable", "Unknown"}

IsRetryableTransactionError(code) ==
    code \in {"Aborted", "AlreadyExists"} \/ ~ IsPermanentError(code)

\* TransactionRunner::Run: an attempt is used up before the backoff.
Run(r) == [r EXCEPT !.attemptsRemaining = @ - 1, !.phase = "backoff"]

\* Mutant: one attempt too many.
MutHandleTransactionError(r, t, code) ==
    IF /\ r.attemptsRemaining >= 0
       /\ IsRetryableTransactionError(code)
       /\ ~ t.permanentlyFailed
    THEN Run(r)
    ELSE [r EXCEPT !.phase = "done", !.result = code]

\* The result callback is called in phase done, with the result.
HandleTransactionError(r, t, code) ==
    IF /\ r.attemptsRemaining > 0
       /\ IsRetryableTransactionError(code)
       /\ ~ t.permanentlyFailed
    THEN Run(r)
    ELSE [r EXCEPT !.phase = "done", !.result = code]

\* Mutant: an error of the commit is not looked at.
MutDispatchResult(r, t, code) == [r EXCEPT !.phase = "done", !.result = "Ok"]

DispatchResult(r, t, code) ==
    IF code = "Ok" THEN [r EXCEPT !.phase = "done", !.result = "Ok"]
                   ELSE HandleTransactionError(r, t, code)

\* TransactionRunner::ContinueCommit, when the block has ended: its error, the error
\* of one of its writes, or a commit that goes to the backend.
ContinueCommit(r, t, code) ==
    IF code # "Ok" THEN HandleTransactionError(r, t, code)
    ELSE IF t.writeError THEN DispatchResult(r, t, "Permanent")
    ELSE [r EXCEPT !.phase = "committing"]

-----------------------------------------------------------------------------
(* The backend (external). *)

\* A commit is applied mutation by mutation to the versions at commit time v.
PreconditionHolds(pre, old) ==
    CASE pre.kind = "None"       -> TRUE
      [] pre.kind = "Exists"     -> old # None
      [] pre.kind = "NotExists"  -> old = None
      [] pre.kind = "UpdateTime" -> old = pre.version

\* The version a write sees of its document: what the write of the same commit before
\* it left, or what the backend has.
SeenBy(muts, i) ==
    LET before == {j \in 1..(i - 1) : muts[j].key = muts[i].key}
    IN  IF before = {} THEN version[muts[i].key]
        ELSE IF muts[Max(before)].op = "delete" THEN None ELSE clock + 1

\* The preconditions of a commit that do not hold.
Failing(c) ==
    {c.mutations[i].pre : i \in {j \in DOMAIN c.mutations :
         ~ PreconditionHolds(c.mutations[j].pre, SeenBy(c.mutations, j))}}
    \cup {v.pre : v \in {u \in c.verifies : ~ PreconditionHolds(u.pre, version[u.key])}}

\* The code the backend answers a failing precondition with.
RefusalCode(pre) ==
    CASE pre.kind = "UpdateTime" -> "Aborted"
      [] pre.kind = "NotExists"  -> "AlreadyExists"
      [] pre.kind = "Exists"     -> "Permanent"

Apply(c) ==
    LET writes(k) == {i \in DOMAIN c.mutations : c.mutations[i].key = k}
    IN  /\ clock' = IF c.mutations = <<>> THEN clock ELSE clock + 1
        /\ version' = [k \in Keys |->
             IF writes(k) = {} THEN version[k]
             ELSE IF c.mutations[Max(writes(k))].op = "delete" THEN None ELSE clock + 1]

-----------------------------------------------------------------------------
Init ==
    /\ runner = [x \in Txns |-> [phase |-> "new", attemptsRemaining |-> MaxAttempts,
                                 result |-> "none", attempts |-> 0, lost |-> 0]]
    /\ trans = [x \in Txns |-> NewTransaction]
    /\ version = [k \in Keys |-> IF k \in Existing THEN 1 ELSE None]
    /\ clock = 1
    /\ strays = {}
    /\ applied = [x \in Txns |-> 0]

\* SyncEngine::Transaction.
Transaction(x) ==
    /\ runner[x].phase = "new"
    /\ runner' = [runner EXCEPT ![x] = Run(@)]
    /\ UNCHANGED <<trans, version, clock, strays, applied>>

\* The operation of Run after the backoff: a new Transaction is handed to the block.
BackoffElapsed(x) ==
    /\ runner[x].phase = "backoff"
    /\ runner' = [runner EXCEPT ![x].phase = "block", ![x].attempts = @ + 1]
    /\ UNCHANGED <<trans, version, clock, strays, applied>>

\* The block makes another call on its transaction.
InBlock(x) == runner[x].phase = "block" /\ trans[x].calls < MaxCalls

\* The block ends with a status, which goes back to the worker queue.  A transaction
\* that is not committed now is released.
EndBlock(x, t, code) ==
    LET r == ContinueCommit(runner[x], t, code)
    IN  /\ runner' = [runner EXCEPT ![x] = r]
        /\ trans' = [trans EXCEPT ![x] = IF r.phase = "committing"
                                        THEN [t EXCEPT !.calls = 0] ELSE NewTransaction]
        /\ UNCHANGED <<version, clock, strays, applied>>

\* The answer to a commit arrives and the transaction is released.
EndCommit(x, r, code) ==
    /\ runner' = [runner EXCEPT ![x] = DispatchResult(r, trans[x], code)]
    /\ trans' = [trans EXCEPT ![x] = NewTransaction]

\* The block goes on with the transaction as it is now.
Continue(x, t) ==
    /\ trans' = [trans EXCEPT ![x] = [t EXCEPT !.calls = @ + 1]]
    /\ UNCHANGED <<runner, version, clock, strays, applied>>

\* Transaction::Lookup of one document: refused after a write, failed on the way, or
\* answered with the version the backend has.  The block returns an error it gets; a
\* block that ignores it has changed nothing.
Lookup(x, k) ==
    LET t == trans[x]
        answer == RecordVersion(t, k, version[k])
    IN  /\ InBlock(x)
        /\ IF t.mutations # <<>>
           THEN EndBlock(x, t, "Permanent")
           ELSE \/ EndBlock(x, t, "Unavailable")
                \/ IF answer.status = "Ok" THEN Continue(x, answer.trans)
                                          ELSE EndBlock(x, t, answer.status)

\* Set, Update and Delete.
Write(x, k) ==
    /\ InBlock(x)
    /\ \E t \in {Set(trans[x], k), Update(trans[x], k), Delete(trans[x], k)} :
          Continue(x, t)

\* The block returns without an error.
FinishBlock(x) ==
    /\ runner[x].phase = "block"
    /\ EndBlock(x, trans[x], "Ok")

\* The block returns an error of its own, which has no code the runner knows:
\* MarkPermanentlyFailed keeps it from being retried.
FailBlock(x) ==
    /\ runner[x].phase = "block"
    /\ EndBlock(x, [trans[x] EXCEPT !.permanentlyFailed = TRUE], "Unknown")

-----------------------------------------------------------------------------
(* The commit. *)

Committing(x) == runner[x].phase = "committing"

\* The backend applies the commit and its answer arrives.
Commit(x) ==
    LET c == CommitRequest(x, trans[x])
    IN  /\ Committing(x)
        /\ Failing(c) = {}
        /\ Apply(c)
        /\ applied' = [applied EXCEPT ![x] = @ + 1]
        /\ EndCommit(x, runner[x], "Ok")
        /\ UNCHANGED strays

\* The backend refuses the commit: because of a precondition, or for good.
Refuse(x) ==
    LET failing == Failing(CommitRequest(x, trans[x]))
    IN  /\ Committing(x)
        /\ \E code \in {RefusalCode(pre) : pre \in failing} \cup {"Permanent"} :
              EndCommit(x, runner[x], code)
        /\ UNCHANGED <<version, clock, strays, applied>>

Lost == FoldFunction(LAMBDA r, sum : r.lost + sum, 0, runner)

\* The client gives up waiting: the commit may still reach the backend.
LoseAnswer(x) ==
    /\ Committing(x)
    /\ Lost < MaxLost
    /\ strays' = strays \cup {CommitRequest(x, trans[x])}
    /\ EndCommit(x, [runner[x] EXCEPT !.lost = @ + 1], "Unavailable")
    /\ UNCHANGED <<version, clock, applied>>

\* A commit that was given up is applied after all; one that never is stays a stray.
ServeStray(c) ==
    /\ Failing(c) = {}
    /\ Apply(c)
    /\ strays' = strays \ {c}
    /\ applied' = [applied EXCEPT ![c.txn] = @ + 1]
    /\ UNCHANGED <<runner, trans>>

-----------------------------------------------------------------------------
Next ==
    \/ \E x \in Txns :
          \/ Transaction(x) \/ BackoffElapsed(x)
          \/ \E k \in Keys : Lookup(x, k) \/ Write(x, k)
          \/ FinishBlock(x) \/ FailBlock(x)
          \/ Commit(x) \/ Refuse(x) \/ LoseAnswer(x)
    \/ \E c \in strays : ServeStray(c)

Spec == Init /\ [][Next]_vars

-----------------------------------------------------------------------------
(* Properties. *)

Phases == {"new", "backoff", "block", "committing", "done"}

\* The type invariant.
TypeOK ==
    /\ runner \in [Txns -> [phase : Phases, attemptsRemaining : -1..MaxAttempts,
                           result : Codes \cup {"none"}, attempts : Nat, lost : Nat]]
    /\ trans \in [Txns -> [reads : [Keys -> Versions \cup {Unread}],
                          mutations : Seq(Mutations), written : SUBSET Keys,
                          writeError : BOOLEAN, permanentlyFailed : BOOLEAN,
                          calls : 0..MaxCalls]]
    /\ version \in [Keys -> Versions]
    /\ clock \in Nat
    /\ strays \subseteq Requests
    /\ applied \in [Txns -> Nat]

\* Serializability: whenever a commit is applied, at once or late, every document its
\* block has read still has the version that was read, so the transaction might as
\* well have run in that instant (CreatePrecondition, CreateUpdatePrecondition, the
\* verifies of Commit, one Transaction per attempt).
ReadsStillValid ==
    [][\A x \in Txns : applied'[x] > applied[x] =>
          \E reads \in IF strays' = strays THEN {trans[x].reads}
                                           ELSE {c.reads : c \in strays \ strays'} :
              \A k \in Keys : reads[k] \in {Unread, version[k]}]_vars

\* The result callback tells the truth as far as the client can know it: OK means the
\* transaction was applied, an error that no attempt was except those whose answer was
\* lost, and there is at most one application per lost answer beyond the first.
TruthfulResult ==
    \A x \in Txns :
        /\ runner[x].result = "Ok" => applied[x] > 0
        /\ runner[x].result \notin {"Ok", "none"} => applied[x] <= runner[x].lost
        /\ applied[x] <= runner[x].lost + 1

\* The block runs at most MaxAttempts times (once if that is 0), and a conflict or an
\* unreachable backend is reported to the user only when all attempts are used up.
AttemptsUsed ==
    LET attempts == Max({1, MaxAttempts})
    IN  \A x \in Txns :
          /\ runner[x].attempts <= attempts
          /\ runner[x].result \in {"Aborted", "AlreadyExists", "Unavailable"} =>
                runner[x].attempts = attempts

=============================================================================
