------------------------------ MODULE MCSchema ------------------------------
(* An instance of Schema for TLC.                                          *)
EXTENDS Schema, TLC

CONSTANTS s1, s2, a, b, k1, k2

MCWriter == {s1}
MCDefiner == {s2}
MCCol == {a, b}
MCKey == {k1, k2}

\* After a DROP beside a writer, or a writer that met an index in between,
\* nothing is claimed any more: such a behaviour is followed until the
\* statement or rollback it disturbed has ended.
UntilDisturbed ==
    \/ overlap \subseteq {"create"}
    \/ \E s \in Session : Executing(s) \/ stmt[s].op \in {"undo", "dangling", "failed"}

Symmetry == Permutations(MCKey) \cup Permutations(MCCol)
=============================================================================
