----------------------------- MODULE MCFileStore -----------------------------
(* Small instances of FileStore for TLC: two PUTs of one file and a GET.   *)
EXTENDS FileStore

CONSTANTS p1, p2, g1, a

MCOp == [r \in Requests |-> IF r = g1 THEN "GET" ELSE "PUT"]
MCSize == [r \in Requests |-> IF r = p1 THEN 2 ELSE IF r = p2 THEN 1 ELSE 0]
MCTarget == [r \in Requests |-> a]

=============================================================================
