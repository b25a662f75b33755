------------------------------ MODULE MCServer ------------------------------
(* An instance of Server for TLC.                                          *)
EXTENDS Server

CONSTANTS c1, c2

MCClient == {c1, c2}
MCMaxCommands == [c \in MCClient |-> IF c = c1 THEN 2 ELSE 1]
=============================================================================
