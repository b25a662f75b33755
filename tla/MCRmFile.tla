------------------------------ MODULE MCRmFile ------------------------------
(* Instances of RmFile for TLC.                                            *)
EXTENDS RmFile
=============================================================================
