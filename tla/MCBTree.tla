------------------------------ MODULE MCBTree ------------------------------
(* Instances of BTree for TLC.                                             *)
EXTENDS BTree

EightKeys == 1 .. 8
=============================================================================
