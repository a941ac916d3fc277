----------------------------- MODULE MCWorkload -----------------------------
(* Small files for TLC: ordinary ones, files with one to three long lines, *)
(* and one that has room for its long lines only.                          *)
EXTENDS Workload

MCFiles == {OrdinaryFile(13), LargeFile(20, 1, 9), LargeFile(34, 2, 9), LargeFile(38, 3, 8),
            LargeFile(18, 2, 9)}
MCShortLens == 4..6
=============================================================================
