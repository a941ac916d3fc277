---------------------------- MODULE MCPutExchange ----------------------------
(* Small instances of PutExchange for TLC.                                 *)
EXTENDS PutExchange

CONSTANT Sizes      \* the sizes of the client's file

MCParams == [policy : {"fcfs"}, quantum : {0}] \cup [policy : {"rr"}, quantum : {2, 4}]
MCBodies == {[declared |-> n, sent |-> n, early |-> 0] : n \in Sizes}
=============================================================================
