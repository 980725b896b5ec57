--------------------------- MODULE MCTransactions ---------------------------
(***************************************************************************)
(* Instances of Transactions for TLC.                                      *)
(***************************************************************************)
EXTENDS Transactions, TLC

\* One of any two commit modes that make no difference: a transaction without a
\* parent commits in EAGER mode as in LAZY mode, and one with a parent is left to
\* it in OFF mode as in LAZY mode.
DistinctModes ==
  \A t \in DOMAIN txn :
    txn[t].mode # (IF txn[t].parent = None THEN "EAGER" ELSE "OFF")

\* The threads are alike.
TwinThreads == Permutations(Threads)
=============================================================================
