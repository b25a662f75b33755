--------------------------- MODULE MCWalRecovery ---------------------------
(* Instances of WalRecovery for TLC.                                       *)
EXTENDS WalRecovery, TLC

CONSTANTS t1, t2, r1, v1, v2, p1

TwoTxn == {t1, t2}
OneRid == {r1}
TwoVal == {v1, v2}
OnePage == [rid \in Rid |-> p1]
Symmetry == Permutations(Txn) \cup Permutations(Val)
=============================================================================
