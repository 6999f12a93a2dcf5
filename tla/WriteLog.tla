------------------------------ MODULE WriteLog ------------------------------
(***************************************************************************)
(* What the write path promises, without pipeline, stream, batch ids or    *)
(* crashes: each user has a log of the writes it has issued and that are   *)
(* not settled.  The backend decides the writes of a log in order, though  *)
(* it may decide one more than once.  Only the first write of a log leaves *)
(* it, only when it is decided, and what its user is told, if anything, is *)
(* what the backend decided.  WritePath implements this specification.     *)
(***************************************************************************)
EXTENDS Naturals, Sequences

CONSTANT Users

VARIABLES
    log,        \* the unsettled writes of each user, oldest first
    issued,     \* how many writes were issued; it also numbers them
    committed,  \* the writes the backend has committed
    rejected,   \* the writes the backend has refused
    toldOk,     \* the writes whose user was told OK
    toldError   \* the writes whose user was told of an error

logVars == <<log, issued, committed, rejected, toldOk, toldError>>

Init ==
    /\ log = [u \in Users |-> <<>>]
    /\ issued = 0
    /\ committed = {}
    /\ rejected = {}
    /\ toldOk = {}
    /\ toldError = {}

Decided == committed \cup rejected

\* A user issues a write: it is durable at once.
Issue(u) ==
    /\ issued' = issued + 1
    /\ log' = [log EXCEPT ![u] = Append(@, issued + 1)]
    /\ UNCHANGED <<committed, rejected, toldOk, toldError>>

\* A write may be decided once everything before it in its log is, and again.
MayDecide(w) ==
    \/ w \in Decided
    \/ \E u \in Users : \E i \in DOMAIN log[u] :
          log[u][i] = w /\ \A j \in 1..(i - 1) : log[u][j] \in Decided

Decide(w) ==
    /\ MayDecide(w)
    /\ \/ committed' = committed \cup {w} /\ UNCHANGED rejected
       \/ rejected' = rejected \cup {w} /\ UNCHANGED committed
    /\ UNCHANGED <<log, issued, toldOk, toldError>>

\* The user of a write hears the backend's decision, at most one of them.
TellOk(w) ==
    /\ w \in committed \ toldError
    /\ toldOk' = toldOk \cup {w}
    /\ UNCHANGED toldError

TellError(w) ==
    /\ w \in rejected \ toldOk
    /\ toldError' = toldError \cup {w}
    /\ UNCHANGED toldOk

\* The oldest write leaves its log, with a word to its user if he still waits.
Settle(u) ==
    /\ log[u] # <<>>
    /\ Head(log[u]) \in Decided
    /\ log' = [log EXCEPT ![u] = Tail(@)]
    /\ \/ TellOk(Head(log[u]))
       \/ TellError(Head(log[u]))
       \/ UNCHANGED <<toldOk, toldError>>
    /\ UNCHANGED <<issued, committed, rejected>>

\* The user hears of the oldest write and the process dies before it is removed.
TellAndKeep(u) ==
    /\ log[u] # <<>>
    /\ TellOk(Head(log[u]))
    /\ UNCHANGED <<log, issued, committed, rejected>>

Next ==
    \/ \E u \in Users : Issue(u) \/ Settle(u) \/ TellAndKeep(u)
    \/ \E w \in 1..issued : Decide(w)

Spec == Init /\ [][Next]_logVars

=============================================================================
