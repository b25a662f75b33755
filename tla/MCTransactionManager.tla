------------------------ MODULE MCTransactionManager ------------------------
(* Instances of TransactionManager for TLC.                                *)
EXTENDS TransactionManager, TLC

CONSTANTS t1, t2, r1, r2, fd1, v1, v2

MCTxn == {t1, t2}
OneFd == {fd1}
OneRid == {r1}
TwoRid == {r1, r2}
TwoVal == {v1, v2}
Symmetry == Permutations(MCTxn) \cup Permutations(Rid) \cup Permutations(Val)
=============================================================================
