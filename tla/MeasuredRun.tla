---------------------------- MODULE MeasuredRun -----------------------------
(***************************************************************************)
(* One cell of the experiments: `client load` against a server, and the    *)
(* analysis of the metrics file that the server leaves.                    *)
(***************************************************************************)
EXTENDS Load, Metrics

(* size_class looks at the name of every file that is loaded.              *)
ASSUME NamesAssumption == Names \subseteq DOMAIN NameClass

CONSTANT seed_count     \* the first rows by arrival that load_all drops: 3 by default

ASSUME SeedCountAssumption == seed_count \in Nat

(* The number is not read from the workload: it is right for one with as   *)
(* many files, as the three that gen_workload.py writes.                   *)
SeedsAreFiles == seed_count = Len(files)

(* The rows that the analysis keeps as those of the counted requests.      *)
Kept == ExcludeSeedRows(rows, seed_count)

(* When `client load` reports success, what the scripts keep of the file   *)
(* is one row for every counted request and no seed: dropping the first    *)
(* rows by arrival_ns is right although rows are written in the order in   *)
(* which requests end, after their clients have gone on.  A failed seed    *)
(* shifts the rows, and then the load has reported failure.                *)
SeedsDropped ==
    Succeeded /\ Drained =>
        LET kept == Kept
        IN  \A i \in Requests :
                Cardinality({k \in DOMAIN kept : kept[k].id = i}) = IF i \in Counted THEN 1 ELSE 0

(* The nearest-rank percentile by its definition: the smallest of the      *)
(* values such that at least p percent of them are not larger.             *)
IsNearestRank(values, p, v) ==
    LET upTo(x) == Cardinality({i \in DOMAIN values : values[i] <= x})
    IN  /\ v \in ToSet(values)
        /\ 100 * upTo(v) >= p * Len(values)
        /\ \A u \in ToSet(values) : u < v => 100 * upTo(u) < p * Len(values)

(* The percentiles that run_metrics reports for a run with rows are those  *)
(* of the definition.                                                      *)
PercentilesAreRanks ==
    Drained /\ Len(rows) > seed_count =>
        LET m == RunMetrics(rows, seed_count)
            kept == Kept
        IN  /\ IsNearestRank(Column(kept, Waiting), 50, m.wait_p50_ns)
            /\ IsNearestRank(Column(kept, Waiting), 99, m.wait_p99_ns)
            /\ IsNearestRank(Column(kept, Response), 50, m.resp_p50_ns)
            /\ IsNearestRank(Column(kept, Response), 99, m.resp_p99_ns)

(* The workload that compare_rr_drr.py is written for: the rows of class   *)
(* large that have bytes are those of its long line file.                  *)
LargeIsOneFile ==
    \A f \in Names : Size[f] > 0 =>
        (f = "large.txt" <=> SizeClass([filename |-> f, bytes |-> Size[f]]) = "large")

(* The scripts implement the same quantities separately, with loops or     *)
(* with comprehensions, by class or by file name, with and without a       *)
(* default for what is missing: on the rows of a run that is over they     *)
(* agree, and the classes account for every row.                           *)
ScriptsAgree ==
    pc[Main] = "exited" /\ Drained /\ Len(rows) > seed_count =>
        LET m == RunMetrics(rows, seed_count)
            a == AnalysisMain(rows, seed_count)
            c == CompareMain(rows, seed_count, "large.txt")
        IN  /\ <<m.n, m.wait_p50_ns, m.wait_p99_ns, m.throughput>>
                   = <<a.n, a.p50, a.p99, a.throughput>>
            /\ \A cls \in CLASSES :
                  LET class == m.by_class[cls]
                      slow == <<class.slow_med, class.slow_p99>>
                  IN  /\ a.slow[cls] = slow
                      /\ c.forfeited[cls] = class.forfeited
                      /\ cls = "large" => c.slow = slow
            /\ m.by_class["small"].n + m.by_class["medium"].n + m.by_class["large"].n = m.n
=============================================================================
