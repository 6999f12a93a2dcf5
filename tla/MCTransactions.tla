--------------------------- MODULE MCTransactions ---------------------------
(***************************************************************************)
(* Transactions for TLC: two transactions on two documents, of which one exists. *)
(***************************************************************************)
EXTENDS Transactions, TLC

CONSTANTS a, b, x1, x2

\* No action or property names a transaction.
Symmetry == Permutations(Txns)
=============================================================================
