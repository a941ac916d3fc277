----------------------------- MODULE MCGetSlice -----------------------------
(* A small instance of GetSlice for TLC: every file of up to MaxSize bytes *)
(* whatever the position of its newlines, under each of MCParams.          *)
EXTENDS GetSlice

CONSTANT MaxSize

MCFiles == UNION {[size : {n}, newlines : SUBSET (0 .. n - 1)] : n \in 0 .. MaxSize}

(* With Unbounded = 9 the quantum 7 makes deficit + quantum saturate.      *)
MCParams == {
    [policy |-> "rr", quantum |-> 4, p_lines |-> 3],
    [policy |-> "drr", quantum |-> 2, p_lines |-> 3],
    [policy |-> "drr", quantum |-> 7, p_lines |-> 1],
    [policy |-> "fcfs", quantum |-> 0, p_lines |-> -1]}

(* The scan finds the line's end with reads of one size, the last one cut  *)
(* by the end of the file, and with sizes that change from read to read.   *)
ASSUME ScanByDefinition ==
    \A f \in MCFiles : \A o \in 0 .. f.size - 1 : \A first, second \in 1 .. 4 :
        LET read == [pos \in 0 .. f.size - 1 |->
                        Min({f.size - pos, IF pos % 2 = 0 THEN first ELSE second})]
        IN  ScannedLength(f, o, read) = LineLength(f, o)
=============================================================================
