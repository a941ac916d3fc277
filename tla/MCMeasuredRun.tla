--------------------------- MODULE MCMeasuredRun ----------------------------
(* Two files, one of them empty and without a size class in its name.      *)
EXTENDS MeasuredRun

MCFiles == <<"large.txt", "notes.txt">>
MCSize == [f \in {"large.txt", "notes.txt"} |-> IF f = "large.txt" THEN 4 ELSE 0]
MCNameClass == [f \in {"large.txt", "notes.txt"} |-> IF f = "large.txt" THEN "large" ELSE None]
MCRounds == [op \in {"GET", "PUT"} |-> [f \in {"large.txt", "notes.txt"} |-> IF f = "large.txt" THEN 2 ELSE 1]]
MCForfeits == [op \in {"GET", "PUT"} |-> [f \in {"large.txt", "notes.txt"} |-> IF op = "GET" /\ f = "large.txt" THEN 3 ELSE 0]]
MCPicks == {<<"GET", "large.txt">>, <<"PUT", "notes.txt">>}

(* What compare_rr_drr.py needs of the workload, and ScriptsAgree with it. *)
ASSUME OneLargeFile == LargeIsOneFile

(* What load_all needs of it, and SeedsDropped with it.                    *)
ASSUME AsManyFiles == SeedsAreFiles

Interchangeable == Permutations(Threads)
=============================================================================
