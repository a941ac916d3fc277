----------------------------- MODULE MCPutSlice ------------------------------
(* Small instances of PutSlice for TLC: every body of up to MaxBytes bytes *)
(* declared and sent, in every split, under one quantum for each policy.   *)
EXTENDS PutSlice

CONSTANT MaxBytes

MCParams == [policy : {"fcfs"}, quantum : {0}] \cup [policy : {"rr"}, quantum : {1, 3, 4}]
MCBodies ==
    {b \in [declared : 0 .. MaxBytes, sent : 0 .. MaxBytes + 1, early : 0 .. MaxBytes + 1] :
        b.early <= b.sent}
=============================================================================
