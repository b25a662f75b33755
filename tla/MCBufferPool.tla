---------------------------- MODULE MCBufferPool ----------------------------
(* Instances of BufferPool for TLC.                                        *)
EXTENDS BufferPool, TLC

CONSTANTS c1, c2, fd1, zero, d1

MCClient == {c1, c2}
OneFd == {fd1}
TwoData == {zero, d1}
Symmetry == Permutations(MCClient)
=============================================================================
