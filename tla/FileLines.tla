------------------------------ MODULE FileLines -----------------------------
(***************************************************************************)
(* The files a GET serves, reduced to what its slices look at: the size    *)
(* and the offsets of the newline bytes.                                   *)
(***************************************************************************)
EXTENDS Naturals, FiniteSetsExt

CONSTANT Files

ASSUME FilesAssumption ==
    /\ Files \subseteq [size : Nat, newlines : SUBSET Nat]
    /\ \A f \in Files : \A n \in f.newlines : n < f.size

(* Where a line ends: after a newline, or at the end of the file (a last   *)
(* line without a newline is a line too).                                  *)
LineEnds(f) == {n + 1 : n \in f.newlines} \cup {f.size}

(* Offsets at which a line starts or the file ends.                        *)
Boundaries(f) == LineEnds(f) \cup {0}

(* The end of the line that starts at offset o of file f, o < f.size.      *)
LineEnd(f, o) == Min({e \in LineEnds(f) : e > o})

(* What line_length_at returns, however its reads cut the file.            *)
LineLength(f, o) == LineEnd(f, o) - o

(* The number of bytes each pread may return, by its position.             *)
Reads(f) == {read \in [0 .. f.size - 1 -> Nat \ {0}] :
                \A pos \in DOMAIN read : pos + read[pos] <= f.size}

(* line_length_at's loop from offset o: at[pos] is what it returns once it *)
(* has come to pos.                                                        *)
ScannedLength(f, o, read) ==
    LET at[pos \in 0 .. f.size] ==
            IF pos = f.size THEN f.size - o
            ELSE LET found == {n \in f.newlines : pos <= n /\ n < pos + read[pos]}
                 IN  IF found # {} THEN (pos - o) + (Min(found) - pos) + 1
                     ELSE at[pos + read[pos]]
    IN  at[o]
=============================================================================
