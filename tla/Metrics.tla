------------------------------ MODULE Metrics -------------------------------
(***************************************************************************)
(* What the scripts compute from one metrics file: run_metrics of          *)
(* scripts/metrics.py (for summarize.py and make_report.py), and the       *)
(* separate implementations in analysis.py and compare_rr_drr.py.  A       *)
(* quotient is kept as <<dividend, divisor>>.                              *)
(***************************************************************************)
EXTENDS Rows, SequencesExt, FiniteSetsExt

Waiting(r) == r.start_ns - r.arrival_ns
Response(r) == r.finish_ns - r.arrival_ns
Slowdown(r) == <<Response(r), r.bytes>>

Column(rows, Op(_)) == [i \in DOMAIN rows |-> Op(rows[i])]

(* sum(values)                                                             *)
Total(values) ==
    LET sum[n \in 0 .. Len(values)] == IF n = 0 THEN 0 ELSE sum[n - 1] + values[n]
    IN  sum[Len(values)]

(* [r for r in rows if ...]: the rows that are among these.                *)
Only(rows, these) ==
    LET only[n \in 0 .. Len(rows)] ==
            IF n = 0 THEN << >>
            ELSE IF rows[n] \in these THEN Append(only[n - 1], rows[n])
            ELSE only[n - 1]
    IN  only[Len(rows)]

Sorted(values) == SortByKey(values, values)
SortedQuotients(values) == SortSeq(values, LAMBDA a, b : a[1] * b[2] < b[1] * a[2])

(* max(finish_ns) - min(arrival_ns), which raises ValueError for no rows.  *)
Window(rows) ==
    Max(ToSet(Column(rows, LAMBDA r : r.finish_ns)))
        - Min(ToSet(Column(rows, LAMBDA r : r.arrival_ns)))
-----------------------------------------------------------------------------
(* metrics.py                                                              *)

ClassMetrics(crows) ==
    LET slow == SortedQuotients(Column(Only(crows, {r \in ToSet(crows) : r.bytes > 0}), Slowdown))
        cw == Sorted(Column(crows, Waiting))
        gets == Only(crows, {r \in ToSet(crows) : r.op = "GET"})
        rounds == Column(gets, LAMBDA r : r.rounds)
    IN  [n |-> Len(crows),
         n_get |-> Len(gets),
         slow_med |-> NearestRankPercentile(slow, 50),
         slow_p99 |-> NearestRankPercentile(slow, 99),
         wait_avg_ns |-> IF cw = << >> THEN <<0, 1>> ELSE <<Total(cw), Len(cw)>>,
         wait_p50_ns |-> NearestRankPercentile(cw, 50),
         wait_p99_ns |-> NearestRankPercentile(cw, 99),
         forfeited |-> Total(Column(crows, LAMBDA r : r.forfeited_bytes)),
         rounds_mean_get |-> IF gets = << >> THEN <<0, 1>> ELSE <<Total(rounds), Len(gets)>>,
         rounds_max_get |-> Max({0} \cup ToSet(rounds))]

RowsOfClass(rows, cls) == Only(rows, {r \in ToSet(rows) : SizeClass(r) = cls})

RunMetrics(csv, seed_count) ==
    LET rows == ExcludeSeedRows(csv, seed_count)
        waiting == Sorted(Column(rows, Waiting))
        response == Sorted(Column(rows, Response))
    IN  [n |-> Len(rows),
         wait_p50_ns |-> NearestRankPercentile(waiting, 50),
         wait_p99_ns |-> NearestRankPercentile(waiting, 99),
         resp_p50_ns |-> NearestRankPercentile(response, 50),
         resp_p99_ns |-> NearestRankPercentile(response, 99),
         throughput |-> <<Len(rows), Window(rows)>>,
         by_class |-> [cls \in CLASSES |-> ClassMetrics(RowsOfClass(rows, cls))]]
-----------------------------------------------------------------------------
(* analysis.py --slowdown: one pass over the rows that files the slowdown  *)
(* of each one under its class.                                            *)

SlowdownsByClass(rows) ==
    LET by_class[n \in 0 .. Len(rows)] ==
            IF n = 0 THEN [cls \in CLASSES |-> << >>]
            ELSE IF rows[n].bytes = 0 THEN by_class[n - 1]
            ELSE [by_class[n - 1] EXCEPT ![SizeClass(rows[n])] = Append(@, Slowdown(rows[n]))]
    IN  by_class[Len(rows)]

(* A class without values is not printed: None.                            *)
AnalysisMain(csv, seed_count) ==
    LET rows == ExcludeSeedRows(csv, seed_count)
        waiting == Sorted(Column(rows, Waiting))
        slowdowns == SlowdownsByClass(rows)
    IN  [n |-> Len(rows),
         p50 |-> NearestRankPercentile(waiting, 50),
         p99 |-> NearestRankPercentile(waiting, 99),
         throughput |-> <<Len(rows), Window(rows)>>,
         slow |-> [cls \in CLASSES |->
                      LET vals == SortedQuotients(slowdowns[cls])
                      IN  <<NearestRankPercentile(vals, 50), NearestRankPercentile(vals, 99)>>]]
-----------------------------------------------------------------------------
(* compare_rr_drr.py, for one of its two files.                            *)

ForfeitedByClass_Last(rows) ==      \* the new value replaces the sum
    LET totals[n \in 0 .. Len(rows)] ==
            IF n = 0 THEN [cls \in CLASSES |-> 0]
            ELSE [totals[n - 1] EXCEPT ![SizeClass(rows[n])] = rows[n].forfeited_bytes]
    IN  totals[Len(rows)]

(* totals.get(cls, 0): a class that has not been met counts 0.             *)
ForfeitedByClass(rows) ==
    LET totals[n \in 0 .. Len(rows)] ==
            IF n = 0 THEN [cls \in CLASSES |-> 0]
            ELSE [totals[n - 1] EXCEPT ![SizeClass(rows[n])] = @ + rows[n].forfeited_bytes]
    IN  totals[Len(rows)]

SlowdownForFile(rows, filename) ==
    LET chosen == {r \in ToSet(rows) : r.filename = filename /\ r.bytes > 0}
    IN  SortedQuotients(Column(Only(rows, chosen), Slowdown))

CompareMain(csv, seed_count, long_line_file) ==
    LET rows == ExcludeSeedRows(csv, seed_count)
        vals == SlowdownForFile(rows, long_line_file)
    IN  [forfeited |-> ForfeitedByClass(rows),
         slow |-> <<NearestRankPercentile(vals, 50), NearestRankPercentile(vals, 99)>>]
=============================================================================
