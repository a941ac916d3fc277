------------------------------ MODULE Workload ------------------------------
(***************************************************************************)
(* scripts/gen_workload.py: one file of the workload, written line by      *)
(* line, each line put together word by word.  Only lengths matter: a word *)
(* is its length, a line is its length and its kind.  What the random      *)
(* generator picks is any member of the set it picks from.                 *)
(***************************************************************************)
EXTENDS Integers, Sequences, SequencesExt, FiniteSetsExt

CONSTANTS
    WordLens,   \* the lengths of the words of WORDS
    ShortLens,  \* the lengths of ordinary lines, 60..79 in the code
    Files       \* the files to write, each as OrdinaryFile or LargeFile makes it

(* The arguments of write_ordinary_file.  Its loop is that of              *)
(* write_large_with_long_lines with no long line to write.                 *)
OrdinaryFile(target_bytes) ==
    [target_bytes |-> target_bytes, num_long_lines |-> 0, long_line_len |-> 0]

(* The arguments of write_large_with_long_lines.                           *)
LargeFile(target_bytes, num_long_lines, long_line_len) ==
    [target_bytes |-> target_bytes, num_long_lines |-> num_long_lines,
     long_line_len |-> long_line_len]

(* A long line is longer than any ordinary one, and the long lines alone   *)
(* do not exceed the file: 6 * 20000 of 153600 bytes, lines of 60 to 79.   *)
ASSUME WorkloadAssumption ==
    /\ WordLens \subseteq Nat \ {0} /\ WordLens # {}
    /\ ShortLens \subseteq Nat \ {0}
    /\ \E longest \in ShortLens : \A n \in ShortLens : n <= longest
    /\ \A f \in Files :
        /\ f.target_bytes \in Nat /\ f.num_long_lines \in Nat /\ f.long_line_len \in Nat
        /\ f.num_long_lines * f.long_line_len <= f.target_bytes
        /\ f.num_long_lines > 0 => \A n \in ShortLens : n < f.long_line_len

VARIABLES
    file,               \* the file being written
    pc,                 \* at the head of the loop, in the word loop, or closed
    is_long,            \* the line being put together is a long one
    target_len,         \* the length it is to have
    length,             \* the word loop's length: every word and one more for each
    written, short_written, long_lines_left, next_long_at,
    lines               \* the lines of the file: [long, len]

vars == <<file, pc, is_long, target_len, length, written, short_written, long_lines_left,
          next_long_at, lines>>

(* A name with a suffix, such as GapBytes_OfAll, is that of a faulty       *)
(* variant, which the properties must tell from the real definition.       *)
GapBytes_OfAll(f) ==    \* the long lines are not subtracted
    f.target_bytes \div (f.num_long_lines + 1)

GapBytes(f) ==
    (f.target_bytes - f.num_long_lines * f.long_line_len) \div (f.num_long_lines + 1)

Init ==
    /\ file \in Files
    /\ pc = "loop"
    /\ is_long = FALSE /\ target_len = 0 /\ length = 0
    /\ written = 0 /\ short_written = 0
    /\ long_lines_left = file.num_long_lines
    /\ next_long_at = GapBytes(file)
    /\ lines = << >>

LongIsDue == long_lines_left > 0 /\ short_written >= next_long_at

(* make_short_line and make_long_line differ in nothing but the length     *)
(* they are asked for.                                                     *)
StartLine(long, len) ==
    /\ pc = "loop"
    /\ written < file.target_bytes
    /\ is_long' = long /\ target_len' = len /\ length' = 0
    /\ pc' = "words"
    /\ UNCHANGED <<file, written, short_written, long_lines_left, next_long_at, lines>>

StartLong ==
    /\ LongIsDue
    /\ StartLine(TRUE, file.long_line_len)

StartShort ==
    /\ ~LongIsDue
    /\ \E len \in ShortLens : StartLine(FALSE, len)

AddWord ==
    /\ pc = "words"
    /\ length < target_len - 1
    /\ \E w \in WordLens : length' = length + w + 1
    /\ UNCHANGED <<file, pc, is_long, target_len, written, short_written, long_lines_left,
                   next_long_at, lines>>

(* " ".join(words): no blank after the last word.                          *)
Joined == IF length = 0 THEN 0 ELSE length - 1

(* _fit_to_length: filled with blanks or cut.                              *)
FitToLength(content_len) ==
    IF Joined < content_len THEN Joined + (content_len - Joined) ELSE content_len

LineWith(len) ==
    /\ pc = "words"
    /\ length >= target_len - 1
    /\ lines' = Append(lines, [long |-> is_long, len |-> len])
    /\ written' = written + len
    /\ pc' = "loop"
    /\ UNCHANGED <<file, is_long, target_len, length>>

WriteShort ==
    LET len == FitToLength(target_len - 1) + 1 IN
    /\ ~is_long
    /\ LineWith(len)
    /\ short_written' = short_written + len
    /\ UNCHANGED <<long_lines_left, next_long_at>>

WriteLong_FromHere ==           \* the next gap counted from where this line is
    /\ is_long
    /\ LineWith(FitToLength(target_len - 1) + 1)
    /\ long_lines_left' = long_lines_left - 1
    /\ next_long_at' = short_written + GapBytes(file)
    /\ UNCHANGED short_written

WriteLong ==
    /\ is_long
    /\ LineWith(FitToLength(target_len - 1) + 1)
    /\ long_lines_left' = long_lines_left - 1
    /\ next_long_at' = next_long_at + GapBytes(file)
    /\ UNCHANGED short_written

Close ==
    /\ pc = "loop"
    /\ written >= file.target_bytes
    /\ pc' = "closed"
    /\ UNCHANGED <<file, is_long, target_len, length, written, short_written, long_lines_left,
                   next_long_at, lines>>

Next == StartLong \/ StartShort \/ AddWord \/ WriteShort \/ WriteLong \/ Close

Spec == Init /\ [][Next]_vars
-----------------------------------------------------------------------------
LongLines == {i \in DOMAIN lines : lines[i].long}

(* PartialSums(s)[n]: the sum of the first n numbers of s.                 *)
PartialSums(s) ==
    LET sum[n \in 0 .. Len(s)] == IF n = 0 THEN 0 ELSE sum[n - 1] + s[n]
    IN  sum

(* BytesUpTo[n] and ShortUpTo[n]: the bytes of the first n lines, and of   *)
(* the ordinary ones among them.                                           *)
BytesUpTo == PartialSums([i \in DOMAIN lines |-> lines[i].len])
ShortUpTo == PartialSums([i \in DOMAIN lines |-> IF lines[i].long THEN 0 ELSE lines[i].len])

LongestLine == Max(ShortLens \cup {file.long_line_len})

(* A closed file has all the long lines it should have, every line has     *)
(* exactly a length that was asked for, and the file is at least           *)
(* target_bytes long and less than one line longer.  The loop only looks   *)
(* at the bytes written, so it could end with long lines left to write.    *)
FileAsOrdered ==
    pc = "closed" =>
        /\ Cardinality(LongLines) = file.num_long_lines
        /\ \A i \in DOMAIN lines :
            IF lines[i].long THEN lines[i].len = file.long_line_len
                             ELSE lines[i].len \in ShortLens
        /\ BytesUpTo[Len(lines)] \in file.target_bytes .. file.target_bytes + LongestLine - 1

(* The long lines are spread evenly: before the k-th one there are k gaps  *)
(* of ordinary lines, up to one ordinary line; the deviations do not add   *)
(* up from one long line to the next.                                      *)
LongLinesSpread ==
    \A i \in LongLines :
        LET k == Cardinality({j \in LongLines : j <= i})
            before == ShortUpTo[i]
        IN  /\ before >= k * GapBytes(file)
            /\ before < k * GapBytes(file) + Max(ShortLens)
=============================================================================
