------------------------------ MODULE MCServer ------------------------------
(* Small instances of Server for TLC.                                      *)
EXTENDS Server, TLC

MCBytes == [c \in Requests |-> 1]
Interchangeable == Permutations(Requests) \cup Permutations(Workers)
=============================================================================
