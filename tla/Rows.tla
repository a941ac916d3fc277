-------------------------------- MODULE Rows --------------------------------
(***************************************************************************)
(* scripts/common.py: what every analysis script does with the rows of a   *)
(* metrics file.  A row is a record with the columns of the file, the      *)
(* integer columns already read.                                           *)
(***************************************************************************)
EXTENDS Integers, Sequences, FiniteSets, TLC

CONSTANTS
    None,           \* Python's None
    NameClass,      \* NameClass[f]: the size class that the name f contains, or None
    SmallLimit, MediumLimit     \* 5 KB and 80 KB

CLASSES == {"small", "medium", "large"}

ASSUME RowsAssumption ==
    /\ \A f \in DOMAIN NameClass : NameClass[f] \in CLASSES \cup {None}
    /\ SmallLimit \in Nat /\ MediumLimit \in Nat

(* Python's sorted() is stable: where value i goes among the others.       *)
Place(keys, i) ==
    Cardinality({j \in DOMAIN keys : IF j <= i THEN keys[j] <= keys[i] ELSE keys[j] < keys[i]})

(* sorted(seq, key=...), given the key of each value.                      *)
SortByKey(seq, keys) ==
    [k \in DOMAIN seq |-> seq[CHOOSE i \in DOMAIN seq : Place(keys, i) = k]]

(* sorted() by arrival_ns, then without the first seed_count rows.         *)
ExcludeSeedRows_AsWritten(rows, seed_count) ==   \* in the order of the file
    SubSeq(rows, seed_count + 1, Len(rows))

ExcludeSeedRows(rows, seed_count) ==
    LET rows_sorted == SortByKey(rows, [i \in DOMAIN rows |-> rows[i].arrival_ns])
    IN  SubSeq(rows_sorted, seed_count + 1, Len(rows_sorted))

(* The position, counted from 0, of percentile p among n sorted values.    *)
RankIndex_Floor(n, p) ==        \* the division rounds down
    LET idx == ((p * n) \div 100) - 1
        capped == IF idx < n - 1 THEN idx ELSE n - 1
    IN  IF capped < 0 THEN 0 ELSE capped

RankIndex(n, p) ==
    LET idx == -((-(p * n)) \div 100) - 1
        capped == IF idx < n - 1 THEN idx ELSE n - 1
    IN  IF capped < 0 THEN 0 ELSE capped

NearestRankPercentile(sorted_values, p) ==
    IF sorted_values = << >> THEN None
    ELSE sorted_values[RankIndex(Len(sorted_values), p) + 1]

(* By the name if it says so, else by the size.                            *)
SizeClass(r) ==
    IF NameClass[r.filename] # None THEN NameClass[r.filename]
    ELSE IF r.bytes < SmallLimit THEN "small"
    ELSE IF r.bytes < MediumLimit THEN "medium" ELSE "large"
=============================================================================
