---------------------------- MODULE ResultFiles -----------------------------
(* The results directories, which the scripts share.                       *)
CONSTANTS
    Dirs,       \* the values of --results-dir
    NoFile

VARIABLES
    results,    \* results[d][c]: the metrics file of run c in directory d
    begun       \* the runs <<d, c>> that have left a config, a log and data
=============================================================================
