--------------------------- MODULE MCLockManager ---------------------------
(* Three threads, one table with two records.                              *)
EXTENDS LockManager, TLC

CONSTANTS t1, t2, t3, r1, r2, fd1

MCTxn == {t1, t2, t3}
MCRid == {r1, r2}
MCFd == {fd1}

\* Transactions and records are interchangeable in every property checked.
Symmetry == Permutations(MCTxn) \cup Permutations(MCRid)
=============================================================================
